---------------------------- MODULE Spec2Model ----------------------------
(***************************************************************************)
(* A model of todotui's rendering and navigation engine (src/src/cursed.py *)
(* and the Tui main loop, popups and todo view of src/main.py).            *)
(*                                                                         *)
(* Specifications:                                                         *)
(*   SpecTile    LayoutNode.tile applied to every sibling of a parent      *)
(*   SpecLayout  Tui.main with the keys of layout navigation and resize    *)
(*   Spec        Tui.main with the keys that open and drive popups         *)
(*   SpecApi     Spec, plus direct calls of the Popup constructor,         *)
(*               Layout.popup_set and Popup.cancel between two frames      *)
(***************************************************************************)
EXTENDS Integers, Sequences, FiniteSets, TLC

VARIABLES
    pc,          \* where the program is: "call"/"return" around a function under
                 \* check; "draw"/"getch"/"exit"/"crash" in Tui.main
    args,        \* the arguments of the call of a function under check
    result,      \* what the call returned
    size,        \* Tui.size(): the terminal's [w, h]
    config,      \* config["layout"]: columns of cells of view names
    cursor,      \* the cursors of Layout, LayoutColumn and LayoutCell
    windows,     \* LayoutCell.window of every cell, as the Rect it is
    heap,        \* the popup objects reachable from the layout, by identity
    layoutPopup, \* Layout.popup (0: None)
    nextPid,     \* the identity the next constructed popup gets
    filters,     \* TodoView.task_filter of every view
    todoFile,    \* the lines TodoTxt.todo_add appended to the todo file
    exit,        \* Tui.exit
    frame,       \* the erase/draw/refresh calls of the current iteration
    event,       \* what the last call or key did (observation only)
    closed,      \* the popups torn down so far (observation only)
    opened,      \* what each active popup's target was when the popup was
                 \* constructed (observation only)
    nkeys,       \* the number of keys read so far
    states,      \* LayoutCell.states of every cell: the TodoViewState of
                 \* each view the cell was asked for (followed in SpecView
                 \* and SpecScroll only)
    views,       \* TodoView.todo_mtime/done_mtime and len(TodoView.tasks)
    todo,        \* the todo file and what TodoTxt last read of it
    inits        \* the init_state calls so far, by cell and view
                 \* (observation only)

vars == <<pc, args, result, size, config, cursor, windows, heap, layoutPopup,
          nextPid, filters, todoFile, exit, frame, event, closed, opened, nkeys,
          states, views, todo, inits>>

viewVars == <<states, views, todo, inits>>

tuiVars == <<size, config, cursor, windows, heap, layoutPopup, nextPid,
             filters, todoFile, exit, frame, event, closed, opened, nkeys,
             states, views, todo, inits>>

(***************************************************************************)
(* Bounds of the model.                                                    *)
(***************************************************************************)
MaxExtent == 12
MaxSiblings == 4
MaxPopups == 3
MaxText == 1
MaxEntries == 4
MaxKeys == 9
MaxApiKeys == 5
MaxCoord == 1

(***************************************************************************)
(* Python arithmetic.                                                      *)
(***************************************************************************)
\* int(a / b) for b > 0: true division, then truncation towards zero.
IntDiv(a, b) ==
    IF a >= 0 THEN a \div b ELSE -((-a) \div b)

RECURSIVE SumSeq(_)
SumSeq(s) ==
    IF s = <<>> THEN 0 ELSE Head(s) + SumSeq(Tail(s))

(***************************************************************************)
(* LayoutNode.tile: the size of the sibling at `index` among n siblings    *)
(* sharing the parent's extent m.                                          *)
(***************************************************************************)
tileEven(m, n, index) ==
    IntDiv(m, n) + (IF index < m - IntDiv(m, n) * n THEN 1 ELSE 0)

tileNoRemainder(m, n, index) ==
    IntDiv(m, n)

tile(m, n, index) ==
    LET x == IntDiv(m, n)
        r == m - x * n
    IN  IF index = 0 THEN x + r ELSE x

\* The sizes of all n siblings, in sibling order (index 0 first).
TileSizes(m, n) ==
    [i \in 1..n |-> tile(m, n, i - 1)]

(***************************************************************************)
(* Key codes (class Key, and the letters the handlers compare with).       *)
(***************************************************************************)
KeyESCAPE == 27
KeySPACE == 32
KeySSPACE == 0
KeyBACKSPACE == 263
KeyTAB == 9
KeySTAB == 353
KeyENTER == 10
KeyRESIZE == 410
Ord_a == 97
Ord_d == 100
Ord_f == 102
Ord_j == 106
Ord_k == 107
Ord_q == 113
Ord_x == 120
Ord_H == 72
Ord_J == 74
Ord_K == 75
Ord_L == 76

\* curses.ascii.isprint(chr(char))
IsPrint(char) ==
    32 <= char /\ char <= 126

(***************************************************************************)
(* Point, Rect and Window (a Window is a Rect; the curses window behind it *)
(* belongs to the terminal surface).                                       *)
(***************************************************************************)
Min(a, b) == IF a <= b THEN a ELSE b
Max(a, b) == IF a >= b THEN a ELSE b

Point(x, y) ==
    [x |-> x, y |-> y]

Rect(p, q) ==
    [p |-> Point(Min(p.x, q.x), Min(p.y, q.y)),
     q |-> Point(Max(p.x, q.x), Max(p.y, q.y))]

RectWidth(r) == r.q.x - r.p.x
RectHeight(r) == r.q.y - r.p.y

Window(x, y, w, h) ==
    Rect(Point(x, y), Point(x + w, y + h))

WindowMove(win, x, y) ==
    [win EXCEPT !.p = Point(x, y)]

WindowResize(win, w, h) ==
    [win EXCEPT !.q = Point(win.p.x + w, win.p.y + h)]

(***************************************************************************)
(* The layout tree. config[c][k] is the list of view names of cell k of    *)
(* column c (1-based here, 0-based in the source). Sizes are derived live  *)
(* from the terminal size sz and the sibling counts.                       *)
(***************************************************************************)
ColumnCount(cfg) == Len(cfg)
CellCount(cfg, c) == Len(cfg[c])

\* LayoutColumn.width: tile(0) among the layout's columns
ColumnWidth(cfg, sz, c) ==
    tile(sz.w, ColumnCount(cfg), c - 1)

\* LayoutColumn.offset: LayoutNode.offset(0)
RECURSIVE ColumnOffset(_, _, _)
ColumnOffset(cfg, sz, c) ==
    IF c = 1 THEN 0
    ELSE ColumnOffset(cfg, sz, c - 1) + ColumnWidth(cfg, sz, c - 1)

\* LayoutCell.width: LayoutNode.width, the parent column's width
CellWidth(cfg, sz, c, k) ==
    ColumnWidth(cfg, sz, c)

\* LayoutCell.height: tile(1) among the column's cells; the column's height
\* is LayoutNode.height, the layout's
CellHeight(cfg, sz, c, k) ==
    tile(sz.h, CellCount(cfg, c), k - 1)

\* LayoutCell.offset: LayoutNode.offset(1)
RECURSIVE CellOffset(_, _, _, _)
CellOffset(cfg, sz, c, k) ==
    IF k = 1 THEN 0
    ELSE CellOffset(cfg, sz, c, k - 1) + CellHeight(cfg, sz, c, k - 1)

\* LayoutCell.origin
CellOrigin(cfg, sz, c, k) ==
    Point(ColumnOffset(cfg, sz, c), CellOffset(cfg, sz, c, k))

\* LayoutCell.create_window
CreateWindow(cfg, sz, c, k) ==
    LET o == CellOrigin(cfg, sz, c, k)
    IN  Window(o.x, o.y, CellWidth(cfg, sz, c, k), CellHeight(cfg, sz, c, k))

\* LayoutCell.resize: the window is resized, then moved
CellResize(cfg, sz, win, c, k) ==
    LET o == CellOrigin(cfg, sz, c, k)
        resized == WindowResize(win, CellWidth(cfg, sz, c, k),
                                CellHeight(cfg, sz, c, k))
    IN  WindowMove(resized, o.x, o.y)

\* list.index: the first position of v in s (0-based)
RECURSIVE IndexOf(_, _)
IndexOf(s, v) ==
    IF Head(s) = v THEN 0 ELSE 1 + IndexOf(Tail(s), v)

\* Layout.initialize: every cursor on the first child, every cell's window
\* created from the geometry of the moment
InitialCursor(cfg) ==
    [layout |-> 1,
     column |-> [c \in 1..Len(cfg) |-> 1],
     cell   |-> [c \in 1..Len(cfg) |-> [k \in 1..Len(cfg[c]) |-> cfg[c][k][1]]]]

InitialWindows(cfg, sz) ==
    [c \in 1..Len(cfg) |-> [k \in 1..Len(cfg[c]) |-> CreateWindow(cfg, sz, c, k)]]

\* Tui.cursor_cell: layout.cursor.cursor, as <<column, cell>>
CursorCell(cur) ==
    <<cur.layout, cur.column[cur.layout]>>

(***************************************************************************)
(* The state the handlers work on, as one record w: the program's          *)
(* variables, `raised` (an exception is propagating) and `ev`, the         *)
(* observation of what the call did.                                       *)
(***************************************************************************)
NoEvent ==
    [op |-> "none", key |-> -1, to |-> "none", cell |-> <<0, 0>>, view |-> "",
     owner |-> -1, created |-> 0,
     handlers |-> {}, accepted |-> {}, cancelled |-> {}, orphaned |-> {},
     edited |-> {}, resized |-> FALSE, updated |-> {}, raised |-> FALSE]

World ==
    [size |-> size, config |-> config, cursor |-> cursor, windows |-> windows,
     heap |-> heap, root |-> layoutPopup, nextPid |-> nextPid,
     filters |-> filters, todoFile |-> todoFile, exit |-> exit,
     raised |-> FALSE, ev |-> NoEvent]

Raise(w) ==
    [w EXCEPT !.raised = TRUE, !.ev.raised = TRUE]

\* The popups reachable from the layout: Layout.popup, its popup, ...
RECURSIVE ChainFrom(_, _)
ChainFrom(hp, p) ==
    IF p = 0 \/ p \notin DOMAIN hp THEN <<>>
    ELSE <<p>> \o ChainFrom(hp, hp[p].popup)

Chain(hp, root) == ChainFrom(hp, root)

SeqRange(s) == {s[i] : i \in 1..Len(s)}

Reach(hp, root) == SeqRange(Chain(hp, root))

\* The deepest active popup (0 when the layout has none)
Deepest(hp, root) ==
    IF Chain(hp, root) = <<>> THEN 0
    ELSE Chain(hp, root)[Len(Chain(hp, root))]

\* Python frees what nothing refers to any more (cancel ends in `del self`)
Collect(w) ==
    [w EXCEPT !.heap = [p \in Reach(w.heap, w.root) |-> w.heap[p]]]

(***************************************************************************)
(* Popup (src/src/cursed.py). An owner is the layout (0) or a popup.       *)
(***************************************************************************)
WIDGET == 0
ACCEPT == 1
CANCEL == 2

NoInput == [active |-> FALSE, text |-> <<>>]
NoObj == [kind |-> "none", view |-> "", pid |-> 0, opt |-> 0]

\* The fields Popup.__init__ .. OptionListPopup.__init__ set
PopupRecord(cls, parent, x, y, width, height) ==
    [cls |-> cls, parent |-> parent, popup |-> 0,
     position |-> Point(x, y), width |-> width, height |-> height,
     window |-> Window(x, y, width, height),
     mode |-> WIDGET, input |-> NoInput, view |-> "",
     obj |-> NoObj, options |-> <<>>, cursor |-> 0, scroll |-> 0]

SlotOf(w, owner) ==
    IF owner = 0 THEN w.root ELSE w.heap[owner].popup

SetSlot(w, owner, v) ==
    IF owner = 0 THEN [w EXCEPT !.root = v]
    ELSE [w EXCEPT !.heap[owner].popup = v]

PopupInitReplacing(w, rec) ==
    LET p == w.nextPid
        w1 == [w EXCEPT !.heap = (p :> [rec EXCEPT !.popup = 0]) @@ @,
                        !.nextPid = p + 1,
                        !.ev.owner = rec.parent,
                        !.ev.created = p]
    IN  SetSlot(w1, rec.parent, p)

\* Popup.__init__: "Parent already has an active popup", or the parent's
\* slot is set to the new popup
PopupInit(w, rec) ==
    IF w.raised THEN w
    ELSE IF SlotOf(w, rec.parent) # 0
    THEN Raise([w EXCEPT !.ev.owner = rec.parent])
    ELSE LET p == w.nextPid
             w1 == [w EXCEPT !.heap = (p :> [rec EXCEPT !.popup = 0]) @@ @,
                             !.nextPid = p + 1,
                             !.ev.owner = rec.parent,
                             !.ev.created = p]
         IN  SetSlot(w1, rec.parent, p)

PopupCancelPromotingChild(w, p) ==
    IF w.raised THEN w
    ELSE [SetSlot(w, w.heap[p].parent, w.heap[p].popup)
            EXCEPT !.ev.cancelled = @ \cup {p},
                   !.ev.orphaned = @ \cup Reach(w.heap, w.heap[p].popup)]

\* Popup.cancel: the parent's slot is emptied (the window and the popup
\* itself are deleted; a nested popup goes with the popup that held it)
PopupCancel(w, p) ==
    IF w.raised THEN w
    ELSE [SetSlot(w, w.heap[p].parent, 0)
            EXCEPT !.ev.cancelled = @ \cup {p},
                   !.ev.orphaned = @ \cup Reach(w.heap, w.heap[p].popup)]

\* ModalPopup.mode_next / mode_prev
ModeNextUnwrapped(mode) ==
    mode + 1

ModeNext(mode) ==
    (mode + 1) % 3

ModePrev(mode) ==
    (mode - 1) % 3

\* CenteredPopup.centered: only a layout has size()
Centered(w, parent, width, height) ==
    LET cx == IntDiv(w.size.w, 2)
        cy == IntDiv(w.size.h, 2)
    IN  Point(cx - IntDiv(width, 2), cy - IntDiv(height, 2))

(***************************************************************************)
(* TextInput (src/main.py)                                                 *)
(***************************************************************************)
\* TextInput.input: [text, ret]
TextInputInput(text, char) ==
    IF char = KeyBACKSPACE
    THEN [text |-> SubSeq(text, 1, Len(text) - 1), ret |-> TRUE]
    ELSE IF IsPrint(char)
    THEN [text |-> Append(text, char), ret |-> TRUE]
    ELSE [text |-> text, ret |-> FALSE]

(***************************************************************************)
(* Options (src/main.py). A value is "None", "True" or "False"; a list     *)
(* value (`items`) is a sequence of [name, val]; `aliased` says that the   *)
(* list is the very list object held by the target's field, `editing`      *)
(* that the option's own `input` is set.                                   *)
(***************************************************************************)
OptionRecord(cls, key, value) ==
    [cls |-> cls, name |-> <<>>, key |-> key, index |-> 0, value |-> value,
     items |-> <<>>, aliased |-> FALSE, editing |-> FALSE]

NullableBoolOption(key, value) == OptionRecord("NullableBoolOption", key, value)

BoolOption(key, value) == OptionRecord("BoolOption", key, value)

ListEditOptionAliasing(key, list) ==
    [OptionRecord("ListEditOption", key, "None") EXCEPT !.items = list,
                                                         !.aliased = TRUE]

\* ListEditOption(.., value = <the target's list>.copy(), ..)
ListEditOption(key, list) ==
    [OptionRecord("ListEditOption", key, "None") EXCEPT !.items = list]

StringBoolListElementOption(name, index, value) ==
    [OptionRecord("StringBoolListElementOption", "", value)
        EXCEPT !.name = name, !.index = index]

\* NullableBoolOption.cycle
Cycle(value) ==
    IF value = "True" THEN "False"
    ELSE IF value = "False" THEN "None"
    ELSE "True"

\* BoolOption.toggle, StringBoolListElementOption.toggle: not value
Toggle(value) ==
    IF value = "True" THEN "False" ELSE "True"

\* The options of the "Edit Filter" popup, in the order of the source
FilterOptions(f) ==
    << NullableBoolOption("done", f.done),
       NullableBoolOption("archived", f.archived),
       NullableBoolOption("empty", f.empty),
       NullableBoolOption("threshold", f.threshold),
       BoolOption("threshold_implied", f.threshold_implied),
       ListEditOption("contexts", f.contexts),
       ListEditOption("projects", f.projects),
       ListEditOption("regexes", f.regexes) >>

RemoveAt(s, i) ==
    SubSeq(s, 1, i - 1) \o SubSeq(s, i + 1, Len(s))

\* list.remove(v): the first element equal to v goes
RECURSIVE RemoveFirst(_, _)
RemoveFirst(s, v) ==
    IF s = <<>> THEN s
    ELSE IF Head(s) = v THEN Tail(s)
    ELSE <<Head(s)>> \o RemoveFirst(Tail(s), v)

(***************************************************************************)
(* OptionPopup and OptionListPopup (src/main.py). cursor is 0-based, as in *)
(* the source; options[cursor] of the source is options[cursor + 1] here.  *)
(***************************************************************************)
\* OptionPopup.child_position
ChildPosition(pp) ==
    Point(pp.position.x, pp.position.y + pp.height)

\* select_del that leaves the cursor where it was
SelectDelKeepingCursor(w, p) ==
    LET pp == w.heap[p]
    IN  [w EXCEPT !.heap[p].options = RemoveAt(pp.options, pp.cursor + 1),
                  !.heap[p].height = pp.height - 1,
                  !.heap[p].window = WindowResize(pp.window, pp.width, pp.height - 1)]

\* ListElementOption.select_del on options[cursor] of popup p
SelectDel(w, p) ==
    LET pp == w.heap[p]
    IN  [w EXCEPT !.heap[p].options = RemoveAt(pp.options, pp.cursor + 1),
                  !.heap[p].height = pp.height - 1,
                  !.heap[p].cursor = IF pp.cursor > 0 THEN pp.cursor - 1 ELSE pp.cursor,
                  !.heap[p].window = WindowResize(pp.window, pp.width, pp.height - 1)]

\* StringBoolListElementOption.select_key on options[i + 1] of popup p
SelectKey(w, p, i) ==
    [w EXCEPT !.heap[p].options[i + 1].editing = TRUE,
              !.heap[p].input = [active |-> TRUE,
                                 text |-> w.heap[p].options[i + 1].name]]

\* ListEditOption.select_val on options[cursor] of popup p: the list popup
\* below p, one StringBoolListElementOption per element of the list
ListEditSelectVal(w, p) ==
    LET pp == w.heap[p]
        opt == pp.options[pp.cursor + 1]
        pos == ChildPosition(pp)
        rec == PopupRecord("OptionListPopup", p, pos.x, pos.y, pp.width,
                           Len(opt.items) + 2)
    IN  PopupInit(w, [rec EXCEPT
            !.obj = [kind |-> "list", view |-> "", pid |-> p, opt |-> pp.cursor + 1],
            !.options = [j \in 1..Len(opt.items) |->
                StringBoolListElementOption(opt.items[j].name, j - 1, opt.items[j].val)]])

\* OptionPopup.cursor_select_val
CursorSelectVal(w, p) ==
    LET pp == w.heap[p]
    IN  IF Len(pp.options) = 0 THEN w
        ELSE IF pp.cursor >= Len(pp.options) THEN Raise(w)
        ELSE LET opt == pp.options[pp.cursor + 1]
             IN  IF opt.cls = "NullableBoolOption"
                 THEN [w EXCEPT !.heap[p].options[pp.cursor + 1].value = Cycle(opt.value)]
                 ELSE IF opt.cls \in {"BoolOption", "StringBoolListElementOption"}
                 THEN [w EXCEPT !.heap[p].options[pp.cursor + 1].value = Toggle(opt.value)]
                 ELSE ListEditSelectVal(w, p)

\* OptionPopup.cursor_select_key
CursorSelectKey(w, p) ==
    LET pp == w.heap[p]
    IN  IF Len(pp.options) = 0 THEN w
        ELSE IF pp.cursor >= Len(pp.options) THEN Raise(w)
        ELSE IF pp.options[pp.cursor + 1].cls = "StringBoolListElementOption"
        THEN SelectKey(w, p, pp.cursor)
        ELSE w

\* OptionPopup.cursor_select_del
CursorSelectDel(w, p) ==
    LET pp == w.heap[p]
    IN  IF Len(pp.options) = 0 THEN w
        ELSE IF pp.cursor >= Len(pp.options) THEN Raise(w)
        ELSE IF pp.options[pp.cursor + 1].cls = "StringBoolListElementOption"
        THEN SelectDel(w, p)
        ELSE w

\* OptionPopup.cursor_select_add: OptionPopup.select_add does nothing,
\* OptionListPopup.select_add appends an entry and starts editing its name
CursorSelectAdd(w, p) ==
    LET pp == w.heap[p]
    IN  IF pp.cls # "OptionListPopup" THEN w
        ELSE LET element == StringBoolListElementOption(<<>>, Len(pp.options), "True")
                 w1 == [w EXCEPT
                     !.heap[p].height = pp.height + 1,
                     !.heap[p].cursor = IF Len(pp.options) > 0 THEN pp.cursor + 1
                                        ELSE pp.cursor,
                     !.heap[p].options = Append(pp.options, element),
                     !.heap[p].window = WindowResize(pp.window, pp.width, pp.height + 1)]
             IN  SelectKey(w1, p, Len(pp.options))

\* OptionPopup.cursor_next / cursor_prev
CursorNext(w, p) ==
    LET pp == w.heap[p]
    IN  IF Len(pp.options) > 0
        THEN [w EXCEPT !.heap[p].cursor = (pp.cursor + 1) % Len(pp.options)]
        ELSE w

CursorPrev(w, p) ==
    LET pp == w.heap[p]
    IN  IF Len(pp.options) > 0
        THEN [w EXCEPT !.heap[p].cursor = (pp.cursor - 1) % Len(pp.options)]
        ELSE w

\* StringBoolListElementOption.accept on options[cursor], with context p
ElementAccept(w, p) ==
    LET pp == w.heap[p]
    IN  IF pp.cursor >= Len(pp.options) THEN Raise(w)
        ELSE IF pp.input.text = <<>>
        THEN [SelectDel(w, p) EXCEPT !.heap[p].input = NoInput]
        ELSE [w EXCEPT !.heap[p].options[pp.cursor + 1].name = pp.input.text,
                       !.heap[p].options[pp.cursor + 1].editing = FALSE,
                       !.heap[p].input = NoInput]

\* StringBoolListElementOption.cancel on options[cursor], with context p
ElementCancel(w, p) ==
    LET pp == w.heap[p]
    IN  IF pp.cursor >= Len(pp.options) THEN Raise(w)
        ELSE [w EXCEPT !.heap[p].options[pp.cursor + 1].editing = FALSE,
                       !.heap[p].input = NoInput]

(***************************************************************************)
(* accept and cancel                                                       *)
(***************************************************************************)
\* Option.apply of every option of popup p, in order, onto the filter
RECURSIVE ApplyOptions(_, _, _)
ApplyOptions(f, options, i) ==
    IF i > Len(options) THEN f
    ELSE LET opt == options[i]
             g == IF opt.cls = "ListEditOption"
                  THEN [f EXCEPT ![opt.key] = opt.items]
                  ELSE [f EXCEPT ![opt.key] = opt.value]
         IN  ApplyOptions(g, options, i + 1)

\* StringBoolListElementOption.apply of every option, in order, onto the
\* list: [list, raised] (obj[key] = val beyond the end is an IndexError)
RECURSIVE ApplyElements(_, _, _)
ApplyElements(list, options, i) ==
    IF i > Len(options) THEN [list |-> list, raised |-> FALSE]
    ELSE LET opt == options[i]
             val == [name |-> opt.name, val |-> opt.value]
         IN  IF opt.index = Len(list)
             THEN ApplyElements(Append(list, val), options, i + 1)
             ELSE IF opt.index < Len(list)
             THEN ApplyElements([list EXCEPT ![opt.index + 1] = val], options, i + 1)
             ELSE [list |-> list, raised |-> TRUE]

\* while len(obj) > len(options): obj.remove(obj[len(obj) - 1])
RECURSIVE Truncate(_, _)
Truncate(list, n) ==
    IF Len(list) > n THEN Truncate(RemoveFirst(list, list[Len(list)]), n)
    ELSE list

\* The list a list popup edits is the value of a ListEditOption of its
\* parent: a write to it is seen there (and in the filter, were it aliased)
WriteList(w, p, list) ==
    LET obj == w.heap[p].obj
        opt == w.heap[obj.pid].options[obj.opt]
        tgt == w.heap[obj.pid].obj
        w1  == [w EXCEPT !.heap[obj.pid].options[obj.opt].items = list]
    IN  IF opt.aliased /\ tgt.kind = "filter"
        THEN [w1 EXCEPT !.filters[tgt.view][opt.key] = list]
        ELSE w1

ReadList(w, p) ==
    LET obj == w.heap[p].obj
    IN  w.heap[obj.pid].options[obj.opt].items

\* The object popup p edits: the filter of a view, or the list held by a
\* ListEditOption of the parent popup
Target(w, p) ==
    LET obj == w.heap[p].obj
    IN  IF obj.kind = "filter" THEN w.filters[obj.view]
        ELSE IF obj.kind = "list" THEN ReadList(w, p)
        ELSE <<>>

\* The names of the fields of its target that popup p would change, were
\* its options applied now
Pending(w, p) ==
    LET pp == w.heap[p]
    IN  IF pp.obj.kind = "filter"
        THEN {pp.options[i].key : i \in {j \in 1..Len(pp.options) :
                 ApplyOptions(Target(w, p), <<pp.options[j]>>, 1) # Target(w, p)}}
        ELSE IF pp.obj.kind = "list"
        THEN IF Truncate(ApplyElements(Target(w, p), pp.options, 1).list,
                         Len(pp.options)) # Target(w, p)
             THEN {"elements"} ELSE {}
        ELSE {}

\* OptionPopup.cancel
OptionPopupCancel(w, p) ==
    PopupCancel([w EXCEPT !.ev.edited = @ \cup Pending(w, p)], p)

\* TextInputPopup.cancel
TextInputPopupCancel(w, p) ==
    PopupCancel(w, p)

\* self.cancel()
Cancel(w, p) ==
    IF w.heap[p].cls \in {"OptionPopup", "OptionListPopup"}
    THEN OptionPopupCancel(w, p)
    ELSE IF w.heap[p].cls = "TaskAddPopup"
    THEN TextInputPopupCancel(w, p)
    ELSE PopupCancel(w, p)

\* OptionPopup.accept
OptionPopupAccept(w, p) ==
    LET pp == w.heap[p]
    IN  Cancel([w EXCEPT !.filters[pp.obj.view] = ApplyOptions(@, pp.options, 1)], p)

\* OptionListPopup.accept
OptionListPopupAccept(w, p) ==
    LET pp == w.heap[p]
        applied == ApplyElements(ReadList(w, p), pp.options, 1)
    IN  IF applied.raised THEN Raise(WriteList(w, p, applied.list))
        ELSE Cancel(WriteList(w, p, Truncate(applied.list, Len(pp.options))), p)

\* TaskAddPopup.accept
TaskAddPopupAccept(w, p) ==
    LET pp == w.heap[p]
    IN  IF Len(pp.input.text) > 0
        THEN Cancel([w EXCEPT !.todoFile = Append(@, pp.input.text)], p)
        ELSE Cancel(w, p)

\* self.accept(); Popup.accept does nothing
Accept(w, p) ==
    LET cls == w.heap[p].cls
        w1 == [w EXCEPT !.ev.accepted = @ \cup {p}]
    IN  IF w.raised THEN w
        ELSE IF cls = "OptionPopup" THEN OptionPopupAccept(w1, p)
        ELSE IF cls = "OptionListPopup" THEN OptionListPopupAccept(w1, p)
        ELSE IF cls = "TaskAddPopup" THEN TaskAddPopupAccept(w1, p)
        ELSE w1

(***************************************************************************)
(* handle_input of the popup classes: [w, ret], ret the handler's return   *)
(* value. ev.handlers collects the popups that did not pass the key on.    *)
(***************************************************************************)
RECURSIVE HandleInput(_, _, _)

PopupHandleInputFallingThrough(w, p, char) ==
    IF w.heap[p].popup # 0
    THEN [w |-> HandleInput(w, w.heap[p].popup, char).w, ret |-> FALSE]
    ELSE [w |-> [w EXCEPT !.ev.handlers = @ \cup {p}], ret |-> FALSE]

\* Popup.handle_input
PopupHandleInput(w, p, char) ==
    IF w.heap[p].popup # 0
    THEN [w |-> HandleInput(w, w.heap[p].popup, char).w, ret |-> TRUE]
    ELSE [w |-> [w EXCEPT !.ev.handlers = @ \cup {p}], ret |-> FALSE]

SetMode(w, p, mode) ==
    [w EXCEPT !.heap[p].mode = mode]

\* ModalPopup.handle_input_accept
ModalPopupHandleInputAccept(w, p, char) ==
    IF char = KeyENTER THEN [w |-> Accept(w, p), ret |-> TRUE]
    ELSE IF char = KeyESCAPE THEN [w |-> Cancel(w, p), ret |-> TRUE]
    ELSE IF char = KeyTAB THEN [w |-> SetMode(w, p, ModeNext(w.heap[p].mode)), ret |-> TRUE]
    ELSE IF char = KeySTAB THEN [w |-> SetMode(w, p, ModePrev(w.heap[p].mode)), ret |-> TRUE]
    ELSE [w |-> w, ret |-> FALSE]

\* ModalPopup.handle_input_cancel
ModalPopupHandleInputCancel(w, p, char) ==
    IF char = KeyENTER THEN [w |-> Cancel(w, p), ret |-> TRUE]
    ELSE IF char = KeyESCAPE THEN [w |-> Cancel(w, p), ret |-> TRUE]
    ELSE IF char = KeyTAB THEN [w |-> SetMode(w, p, ModeNext(w.heap[p].mode)), ret |-> TRUE]
    ELSE IF char = KeySTAB THEN [w |-> SetMode(w, p, ModePrev(w.heap[p].mode)), ret |-> TRUE]
    ELSE [w |-> w, ret |-> FALSE]

\* ModalPopup.handle_input_widget
ModalPopupHandleInputWidget(w, p, char) ==
    IF char = KeyENTER THEN [w |-> Accept(w, p), ret |-> TRUE]
    ELSE IF char = KeyESCAPE THEN [w |-> Cancel(w, p), ret |-> TRUE]
    ELSE IF char = KeyTAB THEN [w |-> SetMode(w, p, ModeNext(w.heap[p].mode)), ret |-> TRUE]
    ELSE IF char = KeySTAB THEN [w |-> SetMode(w, p, ModePrev(w.heap[p].mode)), ret |-> TRUE]
    ELSE [w |-> w, ret |-> FALSE]

\* ModalPopup.handle_input
ModalPopupHandleInput(w, p, char) ==
    LET s == PopupHandleInput(w, p, char)
        mode == w.heap[p].mode
    IN  IF s.ret THEN s
        ELSE IF mode = ACCEPT THEN ModalPopupHandleInputAccept(s.w, p, char)
        ELSE IF mode = CANCEL THEN ModalPopupHandleInputCancel(s.w, p, char)
        ELSE IF mode = WIDGET THEN ModalPopupHandleInputWidget(s.w, p, char)
        ELSE [w |-> s.w, ret |-> FALSE]

\* TextInputPopup.handle_input (after the modal popup declined the key,
\* Enter and Escape cannot be the key any more)
TextInputPopupHandleInput(w, p, char) ==
    LET s == ModalPopupHandleInput(w, p, char)
        t == TextInputInput(w.heap[p].input.text, char)
    IN  IF s.ret THEN s
        ELSE [w |-> [s.w EXCEPT !.heap[p].input.text = t.text], ret |-> FALSE]

\* OptionPopup.handle_input
OptionPopupHandleInput(w, p, char) ==
    LET pp == w.heap[p]
        t == TextInputInput(pp.input.text, char)
        wh == [w EXCEPT !.ev.handlers = @ \cup {p}]
        s == ModalPopupHandleInput(w, p, char)
    IN  IF pp.input.active
        THEN IF t.ret
             THEN [w |-> [wh EXCEPT !.heap[p].input.text = t.text], ret |-> TRUE]
             ELSE IF char = KeyESCAPE THEN [w |-> ElementCancel(wh, p), ret |-> TRUE]
             ELSE IF char = KeyENTER THEN [w |-> ElementAccept(wh, p), ret |-> TRUE]
             ELSE [w |-> wh, ret |-> TRUE]
        ELSE IF s.ret THEN s
        ELSE IF char = KeySPACE THEN [w |-> CursorSelectVal(s.w, p), ret |-> TRUE]
        ELSE IF char = KeySSPACE THEN [w |-> CursorSelectKey(s.w, p), ret |-> TRUE]
        ELSE IF char = Ord_a THEN [w |-> CursorSelectAdd(s.w, p), ret |-> TRUE]
        ELSE IF char = Ord_d THEN [w |-> CursorSelectDel(s.w, p), ret |-> TRUE]
        ELSE IF char = Ord_j THEN [w |-> CursorNext(s.w, p), ret |-> TRUE]
        ELSE IF char = Ord_k THEN [w |-> CursorPrev(s.w, p), ret |-> TRUE]
        ELSE [w |-> s.w, ret |-> FALSE]

\* popup.handle_input(char), by the class of the popup
HandleInput(w, p, char) ==
    LET cls == w.heap[p].cls
    IN  IF cls \in {"OptionPopup", "OptionListPopup"} THEN OptionPopupHandleInput(w, p, char)
        ELSE IF cls = "TaskAddPopup" THEN TextInputPopupHandleInput(w, p, char)
        ELSE PopupHandleInput(w, p, char)

(***************************************************************************)
(* LayoutNode / LayoutCell cursors, Tui.resize                             *)
(***************************************************************************)
\* The step without the modulo: past the last column, before the first
LayoutCursorStepUnwrapped(w, d) ==
    [w EXCEPT !.cursor.layout = @ + d]

\* LayoutNode.cursor_next / cursor_prev of the layout (its columns)
LayoutCursorStep(w, d) ==
    [w EXCEPT !.cursor.layout = ((@ - 1 + d) % ColumnCount(w.config)) + 1]

\* LayoutNode.cursor_next / cursor_prev of column c (its cells)
ColumnCursorStep(w, c, d) ==
    [w EXCEPT !.cursor.column[c] = ((@ - 1 + d) % CellCount(w.config, c)) + 1]

\* LayoutCell.cursor_next / cursor_prev of cell k of column c (its views)
CellCursorStep(w, c, k, d) ==
    LET children == w.config[c][k]
        index == (IndexOf(children, w.cursor.cell[c][k]) + d) % Len(children)
    IN  [w EXCEPT !.cursor.cell[c][k] = children[index + 1]]

AllCells(cfg) ==
    UNION {{<<c, k>> : k \in 1..Len(cfg[c])} : c \in 1..Len(cfg)}

\* Tui.resize: Layout.resize, every column's, every cell's
TuiResize(w) ==
    [w EXCEPT !.windows =
        [c \in 1..Len(w.config) |-> [k \in 1..Len(w.config[c]) |->
            CellResize(w.config, w.size, w.windows[c][k], c, k)]],
              !.ev.resized = TRUE]

\* Layout.update: every column's update, every cell's, which is the forced
\* update of the cell's focused view
LayoutUpdate(w) ==
    [w EXCEPT !.ev.updated = AllCells(w.config)]

(***************************************************************************)
(* TodoView.handle_input for view v in cell k of column c                  *)
(***************************************************************************)
TodoViewHandleInput(w, c, k, v, char) ==
    IF char = Ord_q THEN [w EXCEPT !.exit = TRUE]
    ELSE IF char = Ord_a
    THEN LET o == Centered(w, 0, 80, 3)
         IN  PopupInit(w, [PopupRecord("TaskAddPopup", 0, o.x, o.y, 80, 3) EXCEPT
                 !.view = v, !.input = [active |-> TRUE, text |-> <<>>]])
    ELSE IF char = Ord_f
    THEN PopupInit(w, [PopupRecord("OptionPopup", 0, 40, 20, 60, 10) EXCEPT
             !.obj = [kind |-> "filter", view |-> v, pid |-> 0, opt |-> 0],
             !.options = FilterOptions(w.filters[v])])
    ELSE IF char = Ord_J THEN ColumnCursorStep(w, c, 1)
    ELSE IF char = Ord_K THEN ColumnCursorStep(w, c, -1)
    ELSE IF char = Ord_H THEN LayoutCursorStep(w, -1)
    ELSE IF char = Ord_L THEN LayoutCursorStep(w, 1)
    ELSE IF char = KeyTAB THEN CellCursorStep(w, c, k, 1)
    ELSE IF char = KeySTAB THEN CellCursorStep(w, c, k, -1)
    ELSE IF char = KeyRESIZE THEN LayoutUpdate(TuiResize(w))
    ELSE w

(***************************************************************************)
(* Tui.main. One iteration is Redraw (erase, draw and refresh, down to the *)
(* blocking getch) and KeyPress (the key read and its handling).           *)
(***************************************************************************)
FrameOp(op, on, cells) ==
    [op |-> op, on |-> on, cells |-> cells]

\* Popup.erase / draw / refresh: the popup, then its nested popup
PopupFrameOps(hp, root, op) ==
    [i \in 1..Len(Chain(hp, root)) |-> FrameOp(op, Chain(hp, root)[i], {})]

\* lines 1457-1464 of Tui.main
MainFrame(cfg, hp, root) ==
    << FrameOp("erase", 0, AllCells(cfg)), FrameOp("draw", 0, AllCells(cfg)),
       FrameOp("refresh", 0, AllCells(cfg)) >>
    \o (IF root # 0
        THEN PopupFrameOps(hp, root, "erase") \o PopupFrameOps(hp, root, "draw")
             \o PopupFrameOps(hp, root, "refresh")
        ELSE <<>>)

MainDispatchBoth(w, char) ==
    LET cell == CursorCell(w.cursor)
        view == w.cursor.cell[cell[1]][cell[2]]
        w1 == IF w.root # 0
              THEN HandleInput([w EXCEPT !.ev.to = "popup"], w.root, char).w
              ELSE w
    IN  TodoViewHandleInput([w1 EXCEPT !.ev.to = IF w.root # 0 THEN "both" ELSE "view",
                                       !.ev.cell = cell, !.ev.view = view],
                            cell[1], cell[2], view, char)

\* lines 1460-1469 of Tui.main: the key goes to the layout's popup, or else
\* to the focused view of the focused cell
MainDispatch(w, char) ==
    LET cell == CursorCell(w.cursor)
        view == w.cursor.cell[cell[1]][cell[2]]
    IN  IF w.root # 0
        THEN HandleInput([w EXCEPT !.ev.to = "popup"], w.root, char).w
        ELSE TodoViewHandleInput([w EXCEPT !.ev.to = "view", !.ev.cell = cell,
                                            !.ev.view = view],
                                 cell[1], cell[2], view, char)

\* The variables after a call that left the state w
Commit(w) ==
    /\ size' = w.size
    /\ config' = w.config
    /\ cursor' = w.cursor
    /\ windows' = w.windows
    /\ heap' = Collect(w).heap
    /\ layoutPopup' = w.root
    /\ nextPid' = w.nextPid
    /\ filters' = w.filters
    /\ todoFile' = w.todoFile
    /\ exit' = w.exit
    /\ event' = w.ev
    /\ closed' = closed \cup (DOMAIN w.heap \ Reach(w.heap, w.root))
    /\ opened' = [p \in Reach(w.heap, w.root) |->
                      IF p \in DOMAIN opened THEN opened[p] ELSE Target(w, p)]

Redraw ==
    /\ pc = "draw"
    /\ pc' = "getch"
    /\ frame' = MainFrame(config, heap, layoutPopup)
    /\ event' = [NoEvent EXCEPT !.op = "frame"]
    /\ UNCHANGED <<args, result, size, config, cursor, windows, heap, layoutPopup,
                   nextPid, filters, todoFile, exit, closed, opened, nkeys>>
    /\ UNCHANGED viewVars

\* getch returns char (with KEY_RESIZE the terminal has its new size sz),
\* and the key is handled; the loop ends when Tui.exit is set
KeyPress(char, sz) ==
    /\ pc = "getch"
    /\ LET w0 == [World EXCEPT !.size = IF char = KeyRESIZE THEN sz ELSE @,
                               !.ev.op = "key", !.ev.key = char]
           w  == MainDispatch(w0, char)
       IN  /\ Commit(w)
           /\ pc' = IF w.raised THEN "crash" ELSE IF w.exit THEN "exit" ELSE "draw"
    /\ nkeys' = nkeys + 1
    /\ UNCHANGED <<args, result, frame>>
    /\ UNCHANGED viewVars

(***************************************************************************)
(* Initial states of Tui.main: the layout built from the configuration,    *)
(* no popup, every view with its configured filter.                        *)
(***************************************************************************)
\* DEFAULT_FILTER = TaskFilter(config = {"archived": False, "empty": False})
DefaultFilter ==
    [done |-> "None", archived |-> "False", empty |-> "False",
     threshold |-> "None", threshold_implied |-> "True",
     contexts |-> <<>>, projects |-> <<>>, regexes |-> <<>>]

\* A filter configured with one context and two regexes
ConfiguredFilter ==
    [DefaultFilter EXCEPT !.done = "False",
                          !.contexts = <<[name |-> <<Ord_x>>, val |-> "True"]>>,
                          !.regexes = <<[name |-> <<Ord_x>>, val |-> "True"],
                                        [name |-> <<Ord_q>>, val |-> "False"]>>]

ViewsOf(cfg) ==
    UNION {SeqRange(cfg[c][k]) : <<c, k>> \in AllCells(cfg)}

\* Layout.__init__, LayoutColumn.__init__ and LayoutCell.__init__ raise on
\* an empty list of columns, cells or views: no Tui is constructed
Constructible(cfg) ==
    /\ cfg # <<>>
    /\ \A c \in 1..Len(cfg) :
          /\ cfg[c] # <<>>
          /\ \A k \in 1..Len(cfg[c]) : cfg[c][k] # <<>>

InitTui(cfgs, sizes, fs) ==
    /\ pc = "draw"
    /\ args = <<>>
    /\ result = <<>>
    /\ size \in sizes
    /\ config \in {cfg \in cfgs : Constructible(cfg)}
    /\ cursor = InitialCursor(config)
    /\ windows = InitialWindows(config, size)
    /\ heap = <<>>
    /\ layoutPopup = 0
    /\ nextPid = 1
    /\ filters \in [ViewsOf(config) -> fs]
    /\ todoFile = <<>>
    /\ exit = FALSE
    /\ frame = <<>>
    /\ event = NoEvent
    /\ closed = {}
    /\ opened = <<>>
    /\ nkeys = 0
    /\ states = <<>>
    /\ views = <<>>
    /\ todo = <<>>
    /\ inits = <<>>

(***************************************************************************)
(* Spec: Tui.main on a one-pane layout, with the keys that open and drive  *)
(* the popups. The user opens at most MaxPopups popups, types at most      *)
(* MaxText characters into a text input and keeps a list at MaxEntries     *)
(* entries at most.                                                        *)
(***************************************************************************)
PopupKeys ==
    {KeyENTER, KeyESCAPE, KeyTAB, KeySTAB, KeySPACE, KeySSPACE, KeyBACKSPACE,
     Ord_a, Ord_d, Ord_f, Ord_j, Ord_k, Ord_q, Ord_x}

\* While a text input has the keys, x is the one printable key typed
InputKeys ==
    {KeyENTER, KeyESCAPE, KeyTAB, KeySTAB, KeySSPACE, KeyBACKSPACE, Ord_x}

TypingInto(hp, root) ==
    /\ root # 0
    /\ hp[Deepest(hp, root)].input.active

WithinBounds(w) ==
    /\ w.nextPid <= MaxPopups + 1
    /\ \A p \in DOMAIN w.heap :
           /\ Len(w.heap[p].input.text) <= MaxText
           /\ w.heap[p].cls = "OptionListPopup" => Len(w.heap[p].options) <= MaxEntries

PopupConfigs ==
    { << << <<"todo">> >> >> }

PopupSizes ==
    { [w |-> 120, h |-> 40] }

Init ==
    InitTui(PopupConfigs, PopupSizes, {DefaultFilter, ConfiguredFilter})

KeyPressOf(keys, budget) ==
    \E char \in keys :
        /\ nkeys < budget
        /\ TypingInto(heap, layoutPopup) => char \in InputKeys
        /\ WithinBounds(MainDispatch([World EXCEPT !.ev.op = "key"], char))
        /\ KeyPress(char, size)

PopupKeyPress ==
    KeyPressOf(PopupKeys, MaxKeys)

Next ==
    \/ Redraw
    \/ PopupKeyPress

Spec ==
    Init /\ [][Next]_vars

(***************************************************************************)
(* SpecLayout: Tui.main on layouts of several columns, cells and views,    *)
(* with the keys of layout navigation, the resize notification between    *)
(* a few terminal sizes, and the filter popup opened and cancelled.        *)
(***************************************************************************)
LayoutKeys ==
    {Ord_H, Ord_L, Ord_J, Ord_K, KeyTAB, KeySTAB, KeyRESIZE, Ord_q,
     Ord_f, KeyESCAPE}

\* Layouts from the configuration file: the views of a cell are a list of
\* view names, in which a name may be repeated; a layout without columns,
\* a column without cells and a cell without views are not constructed
LayoutConfigs ==
    { << << <<"todo", "work">> >> >>,
      << << <<"todo", "work", "todo">> >> >>,
      << << <<"todo">>, <<"work">> >>, << <<"home">> >> >>,
      << << <<"todo">> >>, << <<"work">> >>, << <<"home">> >> >>,
      << >>,
      << << <<"todo">> >>, << >> >>,
      << << <<"todo">>, << >> >> >> }

LayoutSizes ==
    {[w |-> a, h |-> b] : a \in {100, 220}, b \in {30, 45}}

InitLayout ==
    InitTui(LayoutConfigs, LayoutSizes, {DefaultFilter})

LayoutKeyPress ==
    \E char \in LayoutKeys : \E sz \in LayoutSizes :
        /\ nkeys < MaxKeys
        /\ char # KeyRESIZE => sz = size
        /\ WithinBounds(MainDispatch([World EXCEPT !.ev.op = "key"], char))
        /\ KeyPress(char, sz)

NextLayout ==
    \/ Redraw
    \/ LayoutKeyPress

SpecLayout ==
    InitLayout /\ [][NextLayout]_vars

(***************************************************************************)
(* SpecApi: Spec, plus calls a client of the library makes between two     *)
(* frames: the Popup constructor on the layout or on any active popup,     *)
(* Layout.popup_set with a popup built on the layout, and cancel() of any  *)
(* active popup. The caller catches what the call raises.                  *)
(***************************************************************************)
ApiKeys ==
    {KeyENTER, KeyESCAPE, KeyTAB, KeySPACE, Ord_a, Ord_f, Ord_k}

ApiKeyPress ==
    KeyPressOf(ApiKeys, MaxApiKeys)

Owners ==
    {0} \cup Reach(heap, layoutPopup)

\* Layout.popup_set
LayoutPopupSet(w, p) ==
    IF w.root # 0 THEN Raise([w EXCEPT !.ev.owner = 0])
    ELSE [w EXCEPT !.root = p, !.ev.owner = 0]

\* Popup(owner, 0, 0, 10, 3)
ApiPopupInit ==
    \E owner \in Owners :
        LET w == PopupInit([World EXCEPT !.ev.op = "init"],
                           PopupRecord("Popup", owner, 0, 0, 10, 3))
        IN  /\ pc = "draw"
            /\ WithinBounds(w)
            /\ Commit(w)
            /\ UNCHANGED <<pc, args, result, frame, nkeys, states, views, todo, inits>>

\* layout.popup_set(layout.popup)
ApiPopupSet ==
    LET w == LayoutPopupSet([World EXCEPT !.ev.op = "popup_set"], layoutPopup)
    IN  /\ pc = "draw"
        /\ layoutPopup # 0
        /\ Commit(w)
        /\ UNCHANGED <<pc, args, result, frame, nkeys, states, views, todo, inits>>

\* p.cancel()
ApiPopupCancel ==
    \E p \in Reach(heap, layoutPopup) :
        LET w == Cancel([World EXCEPT !.ev.op = "cancel"], p)
        IN  /\ pc = "draw"
            /\ Commit(w)
            /\ UNCHANGED <<pc, args, result, frame, nkeys, states, views, todo, inits>>

NextApi ==
    \/ Redraw
    \/ ApiKeyPress
    \/ ApiPopupInit
    \/ ApiPopupSet
    \/ ApiPopupCancel

SpecApi ==
    Init /\ [][NextApi]_vars

(***************************************************************************)
(* SpecTile: tile() for every extent 0..MaxExtent and 1..MaxSiblings       *)
(* siblings.                                                               *)
(***************************************************************************)
InitTile ==
    /\ pc = "call"
    /\ args \in [m : 0..MaxExtent, n : 1..MaxSiblings]
    /\ result = <<>>
    /\ size = [w |-> 0, h |-> 0]
    /\ config = <<>>
    /\ cursor = <<>>
    /\ windows = <<>>
    /\ heap = <<>>
    /\ layoutPopup = 0
    /\ nextPid = 1
    /\ filters = <<>>
    /\ todoFile = <<>>
    /\ exit = FALSE
    /\ frame = <<>>
    /\ event = <<>>
    /\ closed = {}
    /\ opened = <<>>
    /\ nkeys = 0
    /\ states = <<>>
    /\ views = <<>>
    /\ todo = <<>>
    /\ inits = <<>>

TileAll ==
    /\ pc = "call"
    /\ pc' = "return"
    /\ result' = TileSizes(args.m, args.n)
    /\ UNCHANGED args
    /\ UNCHANGED tuiVars

NextTile ==
    TileAll

SpecTile ==
    InitTile /\ [][NextTile]_vars

(***************************************************************************)
(* C1: for every extent M >= 0 and sibling count n >= 1 the n tile sizes   *)
(* sum exactly to M; every sibling but the first gets floor(M/n) and the   *)
(* first gets floor(M/n) plus the whole remainder M - n*floor(M/n).        *)
(***************************************************************************)
C1_TileSum ==
    pc = "return" =>
        /\ Len(result) = args.n
        /\ SumSeq(result) = args.m
        /\ \A i \in 2..args.n : result[i] = args.m \div args.n
        /\ result[1] = (args.m \div args.n) + (args.m - args.n * (args.m \div args.n))

C1_Witness ==
    /\ pc = "return"
    /\ args.n = 3
    /\ args.m = 8
    /\ result = <<4, 2, 2>>

(***************************************************************************)
(* C2 as claimed: any two of the n tile sizes differ by at most 1.         *)
(***************************************************************************)
C2_TilesDifferByAtMostOne ==
    pc = "return" =>
        \A i, j \in 1..args.n : result[i] - result[j] <= 1

(***************************************************************************)
(* C2 amended: all siblings but the first get the same size, and the first *)
(* is larger than each of them by exactly the remainder M mod n, so two    *)
(* tile sizes differ by at most n - 1.                                     *)
(***************************************************************************)
C2_TilesDifferByRemainder ==
    pc = "return" =>
        /\ \A i, j \in 2..args.n : result[i] = result[j]
        /\ \A i \in 2..args.n : result[1] - result[i] = args.m % args.n
        /\ \A i, j \in 1..args.n :
               /\ result[i] - result[j] <= args.n - 1
               /\ result[j] - result[i] <= args.n - 1

C2_Witness ==
    /\ pc = "return"
    /\ args.n = 3
    /\ args.m = 5
    /\ result = <<3, 1, 1>>


(***************************************************************************)
(* Popups: one per owner, cascade teardown, focus modes                    *)
(***************************************************************************)
\* The popup slot of an owner in the current state
Slot(owner) ==
    IF owner = 0 THEN layoutPopup ELSE heap[owner].popup

\* The popups of the current state whose parent is the owner
PopupsOf(owner) ==
    {p \in DOMAIN heap : heap[p].parent = owner}

C3_OnePopupPerOwner ==
    \A owner \in {0} \cup DOMAIN heap :
        /\ Cardinality(PopupsOf(owner)) <= 1
        /\ PopupsOf(owner) = IF Slot(owner) = 0 THEN {} ELSE {Slot(owner)}

\* A step that constructed a popup on, or set the popup of, event'.owner
C3_SecondCreationRaises ==
    (event'.owner \in {0} \cup DOMAIN heap /\ Slot(event'.owner) # 0)
        => /\ event'.raised
           /\ layoutPopup' = layoutPopup
           /\ heap' = heap

\* C3: constructing a popup on an owner (the layout or a popup) that already
\* has an active popup raises, the owner's slot still refers to the original
\* popup and no popup's state changes; so every owner has at most one active
\* popup in every reachable state.
C3_SinglePopup ==
    []C3_OnePopupPerOwner /\ [][C3_SecondCreationRaises]_vars

\* A construction on a popup that already had a nested popup has raised
C3_Witness ==
    /\ event.op = "init"
    /\ event.raised
    /\ event.owner \in DOMAIN heap
    /\ heap[event.owner].popup # 0

C4_TornDownStayGone ==
    /\ closed \cap Reach(heap, layoutPopup) = {}
    /\ pc = "getch" => \A i \in 1..Len(frame) : frame[i].on \notin closed

C4_CancelCascades ==
    /\ \A p \in event'.cancelled :
          (p \in DOMAIN heap /\ heap[p].popup # 0) =>
              /\ IF heap[p].parent = 0 THEN layoutPopup' = 0
                  ELSE heap[p].parent \in DOMAIN heap'
                       => heap'[heap[p].parent].popup = 0
              /\ Reach(heap', layoutPopup') \cap Reach(heap, p) = {}
              /\ Reach(heap, p) \subseteq closed'
    /\ event'.handlers \cap closed = {}

\* C4: cancelling a popup that owns a nested popup empties its owner's slot;
\* afterwards neither the popup nor its nested popup is reachable from the
\* layout, and neither is drawn or handles a key in any later frame.
C4_CascadeTeardown ==
    []C4_TornDownStayGone /\ [][C4_CancelCascades]_vars

\* A popup with a nested popup has been cancelled
C4_Witness ==
    /\ event.op = "cancel"
    /\ event.cancelled # {}
    /\ event.orphaned # {}
    /\ Cardinality(closed) >= 2

\* Content -> Accept -> Cancel -> Content
C5_After(mode) ==
    CASE mode = WIDGET -> ACCEPT
      [] mode = ACCEPT -> CANCEL
      [] mode = CANCEL -> WIDGET

C5_Before(mode) ==
    CASE mode = WIDGET -> CANCEL
      [] mode = ACCEPT -> WIDGET
      [] mode = CANCEL -> ACCEPT

\* The modal popups that take Tab and Shift-Tab as mode keys: those not in
\* the middle of an inline text edit of a list entry
C5_TakesModeKeys(p) ==
    /\ heap[p].cls \in {"OptionPopup", "OptionListPopup", "TaskAddPopup"}
    /\ heap[p].cls = "TaskAddPopup" \/ ~heap[p].input.active

C5_ModesValid ==
    /\ \A p \in DOMAIN heap : heap[p].mode \in {WIDGET, ACCEPT, CANCEL}
    /\ \A m \in {WIDGET, ACCEPT, CANCEL} :
          /\ ModeNext(m) = C5_After(m)
          /\ ModePrev(m) = C5_Before(m)
          /\ ModeNext(ModeNext(ModeNext(m))) = m
          /\ ModePrev(ModePrev(ModePrev(m))) = m
          /\ ModePrev(ModeNext(m)) = m

C5_ModeSteps ==
    /\ event'.created # 0 => heap'[event'.created].mode = WIDGET
    /\ \A p \in event'.handlers :
          (p \in DOMAIN heap /\ C5_TakesModeKeys(p)) =>
              /\ event'.key = KeyTAB =>
                    (p \in DOMAIN heap' /\ heap'[p].mode = C5_After(heap[p].mode))
              /\ event'.key = KeySTAB =>
                    (p \in DOMAIN heap' /\ heap'[p].mode = C5_Before(heap[p].mode))

\* C5: a modal popup starts in Content mode; mode_next moves Content ->
\* Accept -> Cancel -> Content and mode_prev the reverse, so the mode is
\* always one of the three, three nexts (or prevs) return to the start and
\* next followed by prev is the identity.
C5_ModeCycle ==
    []C5_ModesValid /\ [][C5_ModeSteps]_vars

\* Tab has brought a popup from Cancel mode round to Content mode
C5_Witness ==
    /\ event.key = KeyTAB
    /\ \E p \in event.handlers : p \in DOMAIN heap /\ heap[p].mode = WIDGET

(***************************************************************************)
(* Accept and Cancel mode                                                  *)
(***************************************************************************)
\* Popup d is gone, nothing was committed and no other popup changed but
\* for the emptied slot of d's owner
C6_CancelledOnly(d) ==
    /\ d \in event'.cancelled
    /\ d \notin event'.accepted
    /\ d \notin Reach(heap', layoutPopup')
    /\ filters' = filters
    /\ todoFile' = todoFile
    /\ \A p \in DOMAIN heap' :
          heap'[p] = [heap[p] EXCEPT !.popup = IF p = heap[d].parent THEN 0 ELSE @]

C6_ModeChangedOnly(d, mode) ==
    /\ layoutPopup' = layoutPopup
    /\ heap' = [heap EXCEPT ![d].mode = mode]
    /\ filters' = filters
    /\ todoFile' = todoFile

\* The key of this step was read while popup d, the deepest, was in mode m
C6_ModeKeys ==
    (pc = "getch" /\ layoutPopup # 0) =>
        LET d == Deepest(heap, layoutPopup)
            m == heap[d].mode
            k == event'.key
        IN  /\ (m = ACCEPT /\ k = KeyENTER) =>
                  (d \in event'.accepted /\ d \notin Reach(heap', layoutPopup'))
            /\ (m = ACCEPT /\ k = KeyESCAPE) => C6_CancelledOnly(d)
            /\ (m = CANCEL /\ k \in {KeyENTER, KeyESCAPE}) => C6_CancelledOnly(d)
            /\ (m \in {ACCEPT, CANCEL} /\ k = KeyTAB) => C6_ModeChangedOnly(d, C5_After(m))
            /\ (m \in {ACCEPT, CANCEL} /\ k = KeySTAB) => C6_ModeChangedOnly(d, C5_Before(m))

\* C6: in Accept mode Enter runs the accept workflow (commit, then
\* teardown) and Escape cancels without committing; in Cancel mode Enter and
\* Escape both cancel without committing; in both modes Tab and Shift-Tab
\* only change the focus mode and leave the popup open.
C6_AcceptCancelModeKeys ==
    [][C6_ModeKeys]_vars

\* The same keys, read while no inline text edit of a list entry is active
C6_ModeKeysOutsideInlineEdit ==
    [][(layoutPopup # 0 /\ heap[Deepest(heap, layoutPopup)].cls # "TaskAddPopup"
            /\ heap[Deepest(heap, layoutPopup)].input.active)
        \/ C6_ModeKeys]_vars

\* Enter was read by a list popup in Accept mode, and the popup is still
\* open with nothing accepted
C6_Witness ==
    /\ event.key = KeyENTER
    /\ event.accepted = {}
    /\ \E p \in event.handlers :
          p \in Reach(heap, layoutPopup) /\ heap[p].mode = ACCEPT

(***************************************************************************)
(* Cancelling an option popup                                              *)
(***************************************************************************)
\* The target of popup d of the current state, as it is after the step
C7_TargetAfter(d) ==
    IF heap[d].obj.kind = "filter" THEN filters'[heap[d].obj.view]
    ELSE heap'[heap[d].obj.pid].options[heap[d].obj.opt].items

C7_CancelKeepsTarget ==
    \A d \in event'.cancelled \ event'.accepted :
        (d \in DOMAIN heap /\ heap[d].cls \in {"OptionPopup", "OptionListPopup"})
            => /\ C7_TargetAfter(d) = opened[d]
               /\ filters' = filters
               /\ heap[d].obj.kind = "list" => heap[d].obj.pid \in DOMAIN heap'

\* C7: cancelling an option popup (Escape, or Enter in Cancel mode) leaves
\* every field of its target as it was when the popup was opened, whatever
\* was toggled or edited in the popup, list edits accepted in a nested list
\* popup included.
C7_CancelLeavesTarget ==
    [][C7_CancelKeepsTarget]_vars

\* The filter popup has been cancelled while one of its list options held a
\* list that a nested list popup had changed on accept
C7_Witness ==
    /\ event.key \in {KeyESCAPE, KeyENTER}
    /\ event.cancelled # {}
    /\ event.accepted = {}
    /\ layoutPopup = 0
    /\ event.edited \cap {"contexts", "projects", "regexes"} # {}

(***************************************************************************)
(* Keys and nested popups                                                  *)
(***************************************************************************)
\* The key of this step was read while the layout had a popup
C8_KeyToDeepest ==
    (pc = "getch" /\ layoutPopup # 0) =>
        LET d == Deepest(heap, layoutPopup)
        IN  /\ event'.handlers = {d}
            /\ \A p \in Reach(heap, layoutPopup) \ {d} :
                  /\ p \in DOMAIN heap'
                  /\ heap'[p].mode = heap[p].mode
                  /\ heap'[p].cursor = heap[p].cursor
                  /\ heap'[p].input = heap[p].input
                  /\ d \in Reach(heap', layoutPopup') => heap'[p] = heap[p]
                  /\ d \notin Reach(heap', layoutPopup') =>
                        /\ heap'[p].popup = IF p = heap[d].parent THEN 0 ELSE heap[p].popup
                        /\ \A i \in 1..Len(heap[p].options) :
                              heap[p].options[i].cls # "ListEditOption" =>
                                  heap'[p].options[i] = heap[p].options[i]

\* C8: while a popup has an active nested popup, a key delivered to it is
\* handled by the deepest active popup only: the outer popup's focus mode,
\* option cursor, option values and popup slot do not change unless the
\* nested popup closes itself, and once it has been accepted or cancelled
\* the outer popup handles the keys again.
C8_DeepestHandlesKey ==
    [][C8_KeyToDeepest]_vars

\* A popup has handled a key again after the popup nested in it, which had
\* taken the keys in between, had closed
C8_Witness ==
    /\ event.op = "key"
    /\ \E p \in event.handlers :
          p \in Reach(heap, layoutPopup) /\ \E c \in closed : c > p

\* The same, for the keys whose handling does not end in an exception
C8_DeepestHandlesKeyUnlessRaised ==
    [][event'.raised \/ C8_KeyToDeepest]_vars

\* Enter was read by a nested list popup whose accept raised: the popup is
\* still open, and the list of the outer popup's option is no longer what
\* it was when the nested popup was opened
C8_AcceptRaised ==
    /\ pc = "crash"
    /\ event.key = KeyENTER
    /\ event.raised
    /\ \E d \in event.accepted \cap event.handlers :
          /\ d \in Reach(heap, layoutPopup)
          /\ heap[d].cls = "OptionListPopup"
          /\ heap[heap[d].obj.pid].options[heap[d].obj.opt].items # opened[d]

(***************************************************************************)
(* The main loop                                                           *)
(***************************************************************************)
C9_Ops == <<"erase", "draw", "refresh">>

\* At the key read, the frame is: the layout's cells erased, drawn and
\* refreshed, then the popups (outermost first) erased, drawn and refreshed
C9_FrameBeforeKey ==
    pc = "getch" =>
        LET chain == Chain(heap, layoutPopup)
            n == Len(chain)
        IN  /\ Len(frame) = 3 + 3 * n
            /\ \A j \in 1..3 :
                  /\ frame[j] = [op |-> C9_Ops[j], on |-> 0, cells |-> AllCells(config)]
                  /\ \A i \in 1..n :
                        frame[3 + (j - 1) * n + i] =
                            [op |-> C9_Ops[j], on |-> chain[i], cells |-> {}]

\* The key read goes to the layout's popup, or else to the focused view,
\* and the next key is read only after the next frame
C9_OneReceiver ==
    pc = "getch" =>
        /\ nkeys' = nkeys + 1
        /\ pc' \in {"draw", "exit", "crash"}
        /\ layoutPopup # 0 =>
              /\ event'.to = "popup"
              /\ event'.view = ""
              /\ event'.handlers = {Deepest(heap, layoutPopup)}
              /\ exit' = exit
              /\ cursor' = cursor
              /\ windows' = windows
        /\ layoutPopup = 0 =>
              /\ event'.to = "view"
              /\ event'.cell = <<cursor.layout, cursor.column[cursor.layout]>>
              /\ event'.view = cursor.cell[cursor.layout][cursor.column[cursor.layout]]
              /\ event'.handlers = {}

\* C9: in every iteration of the main loop the whole layout is erased,
\* drawn and refreshed, and then the active popup if there is one, before
\* the one key read of the iteration; the key is handled by exactly one
\* receiver, the layout's popup if it has one, the focused view otherwise.
C9_FrameThenOneKey ==
    []C9_FrameBeforeKey /\ [][C9_OneReceiver]_vars

\* With the focus moved to another cell, a key was read after a frame with
\* a popup on top, and went to the popup
C9_Witness ==
    /\ pc = "draw"
    /\ event.to = "popup"
    /\ Len(frame) > 3
    /\ <<cursor.layout, cursor.column[cursor.layout]>> # <<1, 1>>

(***************************************************************************)
(* Rect normalization                                                      *)
(***************************************************************************)
C10_Normalized(r) ==
    r.p.x <= r.q.x /\ r.p.y <= r.q.y

C10_Points ==
    {Point(x, y) : x \in 0..MaxCoord, y \in 0..MaxCoord}

\* C10: every Rect, the drawing surfaces (Windows) included, has p <= q
\* component-wise in every reachable state: after construction from two
\* points in any of the four quadrant orderings, and after any sequence of
\* the moves and resizes the cell resize protocol applies to a window.
C10_RectNormalized ==
    /\ \A p \in C10_Points : \A q \in C10_Points : C10_Normalized(Rect(p, q))
    /\ \A ck \in AllCells(config) : C10_Normalized(windows[ck[1]][ck[2]])
    /\ \A p \in DOMAIN heap : C10_Normalized(heap[p].window)

\* What construction alone guarantees
C10_ConstructionNormalizes ==
    /\ \A p \in C10_Points : \A q \in C10_Points : C10_Normalized(Rect(p, q))
    /\ nkeys = 0 => \A ck \in AllCells(config) : C10_Normalized(windows[ck[1]][ck[2]])
    /\ \A p \in DOMAIN heap : C10_Normalized(heap[p].window)

\* After a resize notification, a cell's window has its p right of its q
C10_Witness ==
    /\ event.key = KeyRESIZE
    /\ \E ck \in AllCells(config) :
          windows[ck[1]][ck[2]].p.x > windows[ck[1]][ck[2]].q.x

(***************************************************************************)
(* C11: the windows after the resize protocol                              *)
(***************************************************************************)
C11_Matches(cfg, sz, wins) ==
    \A ck \in AllCells(cfg) :
        LET win == wins[ck[1]][ck[2]]
        IN  /\ win.p = CellOrigin(cfg, sz, ck[1], ck[2])
            /\ RectWidth(win) = CellWidth(cfg, sz, ck[1], ck[2])
            /\ RectHeight(win) = CellHeight(cfg, sz, ck[1], ck[2])

\* C11: in the state the resize protocol leaves, whatever the terminal size
\* was before and is now, every cell's window has its origin at the cell's
\* derived origin and its width and height equal to the cell's derived size.
C11_WindowsMatchDerived ==
    event.resized => C11_Matches(config, size, windows)

\* The resize protocol ran for a terminal that grew from 100 to 220 columns,
\* and the window of a column right of the first has the derived origin but
\* not the derived width
C11_Witness ==
    /\ event.resized
    /\ size.w = 220
    /\ \E ck \in AllCells(config) :
          LET win == windows[ck[1]][ck[2]]
          IN  /\ ck[1] > 1
              /\ win.p = CellOrigin(config, size, ck[1], ck[2])
              /\ RectWidth(win) # CellWidth(config, size, ck[1], ck[2])

(***************************************************************************)
(* C12: the resize protocol run a second time                              *)
(***************************************************************************)
\* The geometry of the layout: every column's width, every cell's origin
\* and size, every cell's window
C12_Geometry(cfg, sz, wins) ==
    [columns |-> [c \in 1..Len(cfg) |-> ColumnWidth(cfg, sz, c)],
     origins |-> [ck \in AllCells(cfg) |-> CellOrigin(cfg, sz, ck[1], ck[2])],
     sizes   |-> [ck \in AllCells(cfg) |->
                     <<CellWidth(cfg, sz, ck[1], ck[2]),
                       CellHeight(cfg, sz, ck[1], ck[2])>>],
     windows |-> wins]

\* C12: in the state one run of the resize protocol leaves, a second run
\* with the terminal dimensions unchanged leaves every column's width, every
\* cell's origin and size and every cell's window as the first run left them.
C12_ResizeIdempotent ==
    event.resized =>
        C12_Geometry(config, size, TuiResize(World).windows)
            = C12_Geometry(config, size, windows)

\* After one run the derived sizes would survive a second run, but the
\* window of some cell would change
C12_Witness ==
    /\ event.resized
    /\ \E ck \in AllCells(config) :
          /\ TuiResize(World).windows[ck[1]][ck[2]] # windows[ck[1]][ck[2]]
          /\ TuiResize(World).windows[ck[1]][ck[2]].p = windows[ck[1]][ck[2]].p

(***************************************************************************)
(* C13: the resize notification read by the main loop                      *)
(***************************************************************************)
\* C13: whenever the key the main loop read is the resize notification,
\* with or without an active popup, the resize protocol has run on the
\* whole layout and the forced update of every cell has followed it by the
\* time the key is handled, that is before the next frame is drawn.
C13_ResizeKeyRunsProtocol ==
    (event.op = "key" /\ event.key = KeyRESIZE) =>
        /\ event.resized
        /\ event.updated = AllCells(config)

\* The resize notification went to the active filter popup, which is still
\* open, and neither the protocol nor the update ran
C13_Witness ==
    /\ event.op = "key"
    /\ event.key = KeyRESIZE
    /\ event.to = "popup"
    /\ layoutPopup # 0
    /\ ~event.resized
    /\ event.updated = {}

(***************************************************************************)
(* The geometry kernel: intervals, lines, collisions and junction glyphs.  *)
(* An interval is <<lo, hi>>; None (no interval, no segments) is <<>>.     *)
(***************************************************************************)
MaxGrid == 2

None == <<>>

\* Util.order
Order(a, b) ==
    <<Min(a, b), Max(a, b)>>

\* Util.overlap returning its first argument whenever one interval contains
\* the other
OverlapKeepingFirst(a, b) ==
    LET minimum == IF a[1] <= b[1] THEN "a" ELSE "b"
        maximum == IF a[2] >= b[2] THEN "a" ELSE "b"
        p == IF minimum = "a" THEN a ELSE b
        q == IF maximum = "a" THEN a ELSE b
    IN  IF minimum = maximum
        THEN [hit |-> TRUE, seg |-> a]
        ELSE IF p[2] < q[1]
        THEN [hit |-> FALSE, seg |-> None]
        ELSE [hit |-> TRUE, seg |-> <<q[1], p[2]>>]

\* Util.overlap taking intervals that only touch for disjoint
OverlapOpen(a, b) ==
    LET minimum == IF a[1] <= b[1] THEN "a" ELSE "b"
        maximum == IF a[2] >= b[2] THEN "a" ELSE "b"
        p == IF minimum = "a" THEN a ELSE b
        q == IF maximum = "a" THEN a ELSE b
    IN  IF minimum = maximum
        THEN [hit |-> TRUE, seg |-> IF p = a THEN b ELSE a]
        ELSE IF p[2] <= q[1]
        THEN [hit |-> FALSE, seg |-> None]
        ELSE [hit |-> TRUE, seg |-> <<q[1], p[2]>>]

\* Util.overlap. minimum and maximum name one of the two argument objects;
\* `minimum is maximum` compares the objects, `minimum == a` the values.
Overlap(a, b) ==
    LET minimum == IF a[1] <= b[1] THEN "a" ELSE "b"
        maximum == IF a[2] >= b[2] THEN "a" ELSE "b"
        p == IF minimum = "a" THEN a ELSE b
        q == IF maximum = "a" THEN a ELSE b
    IN  IF minimum = maximum
        THEN [hit |-> TRUE, seg |-> IF p = a THEN b ELSE a]
        ELSE IF p[2] < q[1]
        THEN [hit |-> FALSE, seg |-> None]
        ELSE [hit |-> TRUE, seg |-> <<q[1], p[2]>>]

VERTICAL == 1
HORIZONTAL == 2
ANGLED == 3

\* Line.__init__: the two points as given
Line(p, q) ==
    [p |-> p, q |-> q]

Vertical(l) ==
    l.p.x = l.q.x

Horizontal(l) ==
    l.p.y = l.q.y

Orientation(l) ==
    IF Vertical(l) THEN VERTICAL
    ELSE IF Horizontal(l) THEN HORIZONTAL
    ELSE ANGLED

Parallel(a, b) ==
    Orientation(a) = Orientation(b)

\* Line.project: axis 0 is x, axis 1 is y
Project(l, axis) ==
    IF axis = 0 THEN Order(l.p.x, l.q.x) ELSE Order(l.p.y, l.q.y)

\* Line.collision, without the test of both overlaps
CollisionOnX(a, b) ==
    LET ox == Overlap(Project(a, 0), Project(b, 0))
        oy == Overlap(Project(a, 1), Project(b, 1))
    IN  IF ox.hit
        THEN [hit |-> TRUE, seg |-> <<ox.seg, oy.seg>>]
        ELSE [hit |-> FALSE, seg |-> None]

\* Line.collision
Collision(a, b) ==
    LET ox == Overlap(Project(a, 0), Project(b, 0))
        oy == Overlap(Project(a, 1), Project(b, 1))
    IN  IF ox.hit /\ oy.hit
        THEN [hit |-> TRUE, seg |-> <<ox.seg, oy.seg>>]
        ELSE [hit |-> FALSE, seg |-> None]

\* The dict `results` of Line.collisions, in insertion order: entries
\* [a, b, seg] with the key (a, b) compared by value (Line.__eq__)
HasKey(results, a, b) ==
    \E i \in 1..Len(results) : results[i].a = a /\ results[i].b = b

SetKey(results, a, b, seg) ==
    IF HasKey(results, a, b)
    THEN [i \in 1..Len(results) |->
             IF results[i].a = a /\ results[i].b = b
             THEN [results[i] EXCEPT !.seg = seg] ELSE results[i]]
    ELSE Append(results, [a |-> a, b |-> b, seg |-> seg])

\* The body of the two loops of Line.collisions, for the pair of positions
\* (i, j) of the list; `a is b` holds of a position and itself
CollisionsSkipSelf(lines, i, j, results) ==
    i = j \/ HasKey(results, lines[j], lines[i])

CollisionsSkip(lines, i, j, results) ==
    i = j \/ Parallel(lines[i], lines[j]) \/ HasKey(results, lines[j], lines[i])

RECURSIVE CollisionsFrom(_, _, _)
CollisionsFrom(lines, n, results) ==
    IF n = Len(lines) * Len(lines) THEN results
    ELSE LET i == (n \div Len(lines)) + 1
             j == (n % Len(lines)) + 1
             c == Collision(lines[i], lines[j])
         IN  IF CollisionsSkip(lines, i, j, results) \/ ~c.hit
             THEN CollisionsFrom(lines, n + 1, results)
             ELSE CollisionsFrom(lines, n + 1,
                                 SetKey(results, lines[i], lines[j], c.seg))

\* Line.collisions
Collisions(lines) ==
    CollisionsFrom(lines, 0, <<>>)

\* Line.resolve_collision, with h and v taken by position
ResolveCollisionByPosition(a, b, seg) ==
    LET p == Point(seg[1][1], seg[2][1])
        h == a
        v == b
    IN  [p |-> p,
         r |-> IF p = h.p /\ p = v.p THEN "TL"
               ELSE IF p = h.p /\ p = v.q THEN "BL"
               ELSE IF p = h.q /\ p = v.p THEN "TR"
               ELSE IF p = h.q /\ p = v.q THEN "BR"
               ELSE IF p = h.p THEN "VR"
               ELSE IF p = h.q THEN "VL"
               ELSE IF p = v.p THEN "HD"
               ELSE IF p = v.q THEN "HU"
               ELSE "X"]

\* Line.resolve_collision; the glyphs by the names of their constants
\* (UNICODE_TL, ...)
ResolveCollision(a, b, seg) ==
    LET p == Point(seg[1][1], seg[2][1])
        h == IF Horizontal(a) THEN a ELSE b
        v == IF Vertical(a) THEN a ELSE b
    IN  [p |-> p,
         r |-> IF p = h.p /\ p = v.p THEN "TL"
               ELSE IF p = h.p /\ p = v.q THEN "BL"
               ELSE IF p = h.q /\ p = v.p THEN "TR"
               ELSE IF p = h.q /\ p = v.q THEN "BR"
               ELSE IF p = h.p THEN "VR"
               ELSE IF p = h.q THEN "VL"
               ELSE IF p = v.p THEN "HD"
               ELSE IF p = v.q THEN "HU"
               ELSE "X"]

\* Line.resolve_collisions
ResolveCollisions(results) ==
    [i \in 1..Len(results) |->
        ResolveCollision(results[i].a, results[i].b, results[i].seg)]

(***************************************************************************)
(* Window.draw_lines on the curses window behind a cell. The surface is    *)
(* [w, h], the size of that window; st is the drawing so far: cells, the   *)
(* glyph at each position of the surface ("" where erased), and raised,    *)
(* whether curses.error is propagating.                                    *)
(***************************************************************************)
MaxSurface == 4

Erased(sur) ==
    [cells |-> [xy \in (0..(sur.w - 1)) \X (0..(sur.h - 1)) |-> ""],
     raised |-> FALSE]

\* Window.put: addstr fails outside the window, and also after writing the
\* window's last cell, from where the cursor cannot advance
Put(st, sur, x, y, glyph) ==
    IF x < 0 \/ x >= sur.w \/ y < 0 \/ y >= sur.h
    THEN [st EXCEPT !.raised = TRUE]
    ELSE [st EXCEPT !.cells[<<x, y>>] = glyph,
                    !.raised = (x = sur.w - 1 /\ y = sur.h - 1)]

\* try: put(...) except: pass
PutGuarded(st, sur, x, y, glyph) ==
    [Put(st, sur, x, y, glyph) EXCEPT !.raised = FALSE]

\* Window.draw_line_h: while px < qx: put; px += 1
RECURSIVE DrawLineH(_, _, _, _, _)
DrawLineH(st, sur, px, py, qx) ==
    IF st.raised \/ ~(px < qx) THEN st
    ELSE DrawLineH(Put(st, sur, px, py, "H"), sur, px + 1, py, qx)

\* Window.draw_line_v: while py < qy: put; py += 1
RECURSIVE DrawLineV(_, _, _, _, _)
DrawLineV(st, sur, px, py, qy) ==
    IF st.raised \/ ~(py < qy) THEN st
    ELSE DrawLineV(Put(st, sur, px, py, "V"), sur, px, py + 1, qy)

\* Window.draw_line
DrawLine(st, sur, line) ==
    IF Orientation(line) = HORIZONTAL
    THEN DrawLineH(st, sur, line.p.x, line.p.y, line.q.x)
    ELSE IF Orientation(line) = VERTICAL
    THEN DrawLineV(st, sur, line.p.x, line.p.y, line.q.y)
    ELSE [st EXCEPT !.raised = TRUE]

\* for line in lines: self.draw_line(line, color)
RECURSIVE DrawSegments(_, _, _)
DrawSegments(st, sur, lines) ==
    IF st.raised \/ lines = <<>> THEN st
    ELSE DrawSegments(DrawLine(st, sur, Head(lines)), sur, Tail(lines))

\* for (x, y), s in r: try: put(x, y, s) except: pass
RECURSIVE DrawJunctions(_, _, _)
DrawJunctions(st, sur, r) ==
    IF r = <<>> THEN st
    ELSE DrawJunctions(PutGuarded(st, sur, Head(r).p.x, Head(r).p.y, Head(r).r),
                       sur, Tail(r))

\* Window.draw_lines
DrawLines(st, sur, lines) ==
    LET segments == DrawSegments(st, sur, lines)
    IN  IF segments.raised THEN segments
        ELSE DrawJunctions(segments, sur, ResolveCollisions(Collisions(lines)))

\* LayoutNode.border_lines of a cell of the derived size [w, h]
BorderLines(sz) ==
    << Line(Point(0, 0), Point(sz.w - 1, 0)),
       Line(Point(0, sz.h - 1), Point(sz.w - 1, sz.h - 1)),
       Line(Point(0, 0), Point(0, sz.h - 1)),
       Line(Point(sz.w - 1, 0), Point(sz.w - 1, sz.h - 1)) >>

\* TodoView.row_lines(state, x, y), with state.max_x the cell's max_x
RowLines(sz, x, y) ==
    << Line(Point(x, y), Point(sz.w - 1, y)) >>

\* TodoView.column_line(state, x, y, field), with state.layout[field].sep
\* the offset sep and state.max_y the cell's max_y
ColumnLine(sz, x, y, sep) ==
    Line(Point(x + sep, y), Point(x + sep, sz.h - 1))

\* LayoutCell.draw and TodoView.draw: the lines of a cell of the derived
\* size sz showing a view with one divider at offset sep
CellLines(sz, sep) ==
    BorderLines(sz) \o << ColumnLine(sz, 1, 0, sep) >> \o RowLines(sz, 0, 2)

(***************************************************************************)
(* Specifications of the kernel's functions: the arguments are drawn in    *)
(* the initial state, and each action is one call.                         *)
(***************************************************************************)
InitCall(argsets) ==
    /\ pc = "call"
    /\ args \in argsets
    /\ result = <<>>
    /\ size = [w |-> 0, h |-> 0]
    /\ config = <<>>
    /\ cursor = <<>>
    /\ windows = <<>>
    /\ heap = <<>>
    /\ layoutPopup = 0
    /\ nextPid = 1
    /\ filters = <<>>
    /\ todoFile = <<>>
    /\ exit = FALSE
    /\ frame = <<>>
    /\ event = <<>>
    /\ closed = {}
    /\ opened = <<>>
    /\ nkeys = 0
    /\ states = <<>>
    /\ views = <<>>
    /\ todo = <<>>
    /\ inits = <<>>

Return(to, value) ==
    /\ pc = "call"
    /\ pc' = to
    /\ result' = value
    /\ UNCHANGED args
    /\ UNCHANGED tuiVars

\* SpecOverlap: Util.overlap on two intervals with ends in 0..MaxEnd
MaxEnd == 4

Intervals ==
    {<<lo, hi>> : lo \in 0..MaxEnd, hi \in 0..MaxEnd} \cap
    {Order(lo, hi) : lo \in 0..MaxEnd, hi \in 0..MaxEnd}

InitOverlap ==
    InitCall([a : Intervals, b : Intervals])

CallOverlap ==
    Return("overlap", Overlap(args.a, args.b))

NextOverlap ==
    CallOverlap

SpecOverlap ==
    InitOverlap /\ [][NextOverlap]_vars

\* SpecLines: two lines between any points of the grid (0..MaxGrid)^2,
\* horizontal, vertical, angled or of length 0, in any direction
GridPoints ==
    {Point(x, y) : x \in 0..MaxGrid, y \in 0..MaxGrid}

GridLines ==
    {Line(p, q) : p \in GridPoints, q \in GridPoints}

InitLines ==
    InitCall([a : GridLines, b : GridLines])

\* a.collision(b) and b.collision(a)
CallCollision ==
    Return("collision", [ab |-> Collision(args.a, args.b),
                         ba |-> Collision(args.b, args.a)])

\* Line.collisions([a, b])
CallCollisions ==
    Return("collisions", Collisions(<<args.a, args.b>>))

\* Line.resolve_collisions of Line.collisions([a, b]) and of
\* Line.collisions([b, a])
CallResolve ==
    /\ Collisions(<<args.a, args.b>>) # <<>>
    /\ Return("resolve",
              [ab |-> ResolveCollisions(Collisions(<<args.a, args.b>>)),
               ba |-> ResolveCollisions(Collisions(<<args.b, args.a>>))])

NextLines ==
    \/ CallCollision
    \/ CallCollisions
    \/ CallResolve

SpecLines ==
    InitLines /\ [][NextLines]_vars

\* SpecDraw: one cell's line draw pass. The cell has the derived size
\* args.cell and shows a view with a divider at offset args.sep; the curses
\* window behind it has the size args.surface, which is the cell's size
\* unless the terminal was resized and the resize protocol has not run.
SurfaceSizes ==
    [w : 1..MaxSurface, h : 1..MaxSurface]

InitDraw ==
    InitCall([surface : SurfaceSizes, cell : SurfaceSizes, sep : 0..MaxSurface])

CallDrawLines ==
    Return("drawn", DrawLines(Erased(args.surface), args.surface,
                              CellLines(args.cell, args.sep)))

NextDraw ==
    CallDrawLines

SpecDraw ==
    InitDraw /\ [][NextDraw]_vars

(***************************************************************************)
(* C14: glyphs outside the drawing surface                                 *)
(***************************************************************************)
\* The line draw pass has a glyph for the position xy: a plain segment of
\* one of the lines runs over it, or a junction is resolved at it
C14_HasGlyph(lines, xy) ==
    \/ \E i \in 1..Len(lines) :
          \/ /\ Orientation(lines[i]) = HORIZONTAL
             /\ xy[2] = lines[i].p.y
             /\ lines[i].p.x <= xy[1] /\ xy[1] < lines[i].q.x
          \/ /\ Orientation(lines[i]) = VERTICAL
             /\ xy[1] = lines[i].p.x
             /\ lines[i].p.y <= xy[2] /\ xy[2] < lines[i].q.y
    \/ \E i \in 1..Len(Collisions(lines)) :
          ResolveCollisions(Collisions(lines))[i].p = Point(xy[1], xy[2])

\* C14: a cell's line draw pass never raises, whatever part of the cell's
\* border and divider lines lies outside the drawing surface, and it draws
\* every glyph (plain segment or junction) whose position is on the surface.
C14_OutOfBoundsDiscarded ==
    pc = "drawn" =>
        /\ ~result.raised
        /\ \A xy \in DOMAIN result.cells :
               C14_HasGlyph(CellLines(args.cell, args.sep), xy)
                   => result.cells[xy] # ""

\* The surface is narrower than the cell (the terminal grew and the resize
\* protocol has not run): the top border's plain segment leaves the surface,
\* the pass raises, and the left border, which lies on the surface, was not
\* drawn
C14_Witness ==
    /\ pc = "drawn"
    /\ args.surface.w < args.cell.w
    /\ args.surface.h = args.cell.h
    /\ args.cell.h >= 3
    /\ result.raised
    /\ result.cells[<<0, 1>>] = ""

(***************************************************************************)
(* C15: parallel lines                                                     *)
(***************************************************************************)
\* C15 as claimed: two parallel lines, even collinear and overlapping ones,
\* never report a collision: collision(a, b) is not true of them in either
\* order, and collisions of a list holding them has no entry for the pair.
C15_ParallelNeverCollide ==
    /\ (pc = "collision" /\ Parallel(args.a, args.b)) =>
           ~result.ab.hit /\ ~result.ba.hit
    /\ (pc = "collisions" /\ Parallel(args.a, args.b)) => result = <<>>

\* C15 amended: collisions of a list never has an entry for a pair of
\* parallel lines, even when the two are collinear and overlapping (that
\* collision(a, b) is false of them is not claimed).
C15_NoParallelEntry ==
    pc = "collisions" =>
        /\ \A i \in 1..Len(result) : ~Parallel(result[i].a, result[i].b)
        /\ Parallel(args.a, args.b) => result = <<>>

\* Two different horizontal lines of the same row that share more than a
\* point: collision is true of them, collisions has no entry
C15_Witness ==
    /\ pc = "collisions"
    /\ Horizontal(args.a) /\ ~Vertical(args.a)
    /\ Horizontal(args.b) /\ ~Vertical(args.b)
    /\ args.a # args.b
    /\ Collision(args.a, args.b).hit
    /\ Collision(args.a, args.b).seg[1][1] < Collision(args.a, args.b).seg[1][2]
    /\ result = <<>>

(***************************************************************************)
(* C16: collision(a, b) and collision(b, a)                                *)
(***************************************************************************)
\* C16: for any two lines a and b, collision(a, b) and collision(b, a)
\* return the same result: the same boolean and, when it is true, the same
\* pair of x-interval and y-interval.
C16_CollisionSymmetric ==
    pc = "collision" =>
        /\ result.ab.hit = result.ba.hit
        /\ result.ab.hit => result.ab.seg = result.ba.seg

\* The two lines collide where a's x-projection is the larger one and
\* contains b's, which starts at the same point
C16_Witness ==
    /\ pc = "collision"
    /\ result.ab.hit
    /\ Project(args.a, 0)[1] = Project(args.b, 0)[1]
    /\ Project(args.a, 0)[2] > Project(args.b, 0)[2]
    /\ result.ab.seg[1] = Project(args.b, 0)
    /\ result.ba.seg[1] = Project(args.b, 0)

(***************************************************************************)
(* C17: Util.overlap                                                       *)
(***************************************************************************)
\* C17: for any two closed integer intervals a = [a0, a1] and b = [b0, b1]
\* with a0 <= a1 and b0 <= b1, overlap(a, b) reports true exactly when
\* max(a0, b0) <= min(a1, b1) and then returns [max(a0, b0), min(a1, b1)],
\* and otherwise returns (false, none).
C17_OverlapIsIntersection ==
    pc = "overlap" =>
        LET lo == Max(args.a[1], args.b[1])
            hi == Min(args.a[2], args.b[2])
        IN  /\ result.hit = (lo <= hi)
            /\ result.hit => result.seg = <<lo, hi>>
            /\ ~result.hit => result.seg = None

\* a contains b, which starts where a starts and ends before it: the
\* overlap is the smaller interval, b
C17_Witness ==
    /\ pc = "overlap"
    /\ args.a[1] = args.b[1]
    /\ args.b[2] < args.a[2]
    /\ result = [hit |-> TRUE, seg |-> args.b]

(***************************************************************************)
(* C18: Line.resolve_collision                                             *)
(***************************************************************************)
\* h is a horizontal line and v a vertical one, both longer than a point
C18_Perpendicular(h, v) ==
    /\ Horizontal(h) /\ ~Vertical(h)
    /\ Vertical(v) /\ ~Horizontal(v)

\* The nine rules, in order, for the point p, the horizontal line h and
\* the vertical line v
C18_Table(p, h, v) ==
    CASE p = h.p /\ p = v.p -> "TL"
      [] p = h.p /\ p = v.q -> "BL"
      [] p = h.q /\ p = v.p -> "TR"
      [] p = h.q /\ p = v.q -> "BR"
      [] p = h.p /\ p # v.p /\ p # v.q -> "VR"
      [] p = h.q /\ p # v.p /\ p # v.q -> "VL"
      [] p = v.p /\ p # h.p /\ p # h.q -> "HD"
      [] p = v.q /\ p # h.p /\ p # h.q -> "HU"
      [] OTHER -> "X"

\* The junction j is the one of h and v: the point is (v's x, h's y), the
\* glyph is the table's, a corner when the point is an endpoint of both
\* lines, a T when of exactly one, the cross otherwise
C18_JunctionOf(j, h, v) ==
    /\ j.p = Point(v.p.x, h.p.y)
    /\ j.r = C18_Table(j.p, h, v)
    /\ j.r \in {"TL", "BL", "TR", "BR"} <=> (j.p \in {h.p, h.q} /\ j.p \in {v.p, v.q})
    /\ j.r \in {"VR", "VL", "HD", "HU"} <=> (j.p \in {h.p, h.q} <=> j.p \notin {v.p, v.q})
    /\ j.r = "X" <=> (j.p \notin {h.p, h.q} /\ j.p \notin {v.p, v.q})

\* The glyph resolve_collision gives for the colliding lines a and b
C18_Glyph(a, b) ==
    ResolveCollision(a, b, Collision(a, b).seg)

C18_H == Line(Point(0, 0), Point(10, 0))

RECURSIVE C19_LayoutNext(_, _)
C19_LayoutNext(w, n) ==
    IF n = 0 THEN w ELSE C19_LayoutNext(LayoutCursorStep(w, 1), n - 1)

RECURSIVE C19_ColumnNext(_, _, _)
C19_ColumnNext(w, c, n) ==
    IF n = 0 THEN w ELSE C19_ColumnNext(ColumnCursorStep(w, c, 1), c, n - 1)

RECURSIVE C19_CellNext(_, _, _, _)
C19_CellNext(w, c, k, n) ==
    IF n = 0 THEN w ELSE C19_CellNext(CellCursorStep(w, c, k, 1), c, k, n - 1)

\* C19: from any state navigation reaches, whatever the configured lists
\* of children, cursor_next called n times on a layout, column or cell with
\* n children leaves the node's cursor on the child it started on.
C19_NextWrapsAround ==
    pc = "getch" =>
        /\ C19_LayoutNext(World, Len(config)).cursor.layout = cursor.layout
        /\ \A c \in 1..Len(config) :
               C19_ColumnNext(World, c, Len(config[c])).cursor.column[c]
                   = cursor.column[c]
        /\ \A ck \in AllCells(config) :
               C19_CellNext(World, ck[1], ck[2],
                            Len(config[ck[1]][ck[2]])).cursor.cell[ck[1]][ck[2]]
                   = cursor.cell[ck[1]][ck[2]]

\* A cell that lists the views todo, work, todo, with todo focused before
\* the first key: three calls of cursor_next leave work focused
C19_Witness ==
    /\ pc = "getch"
    /\ config[1][1] = <<"todo", "work", "todo">>
    /\ nkeys = 0
    /\ cursor.cell[1][1] = "todo"
    /\ C19_CellNext(World, 1, 1, 3).cursor.cell[1][1] = "work"

(***************************************************************************)
(* C20: the cursors of the layout tree                                     *)
(***************************************************************************)
\* C20: in every state after initialization, whatever navigation keys and
\* resizes came before, the layout's cursor is one of its columns, every
\* column's cursor is one of its cells, every cell's cursor is one of its
\* views, and no list of columns, cells or views is empty.
C20_CursorsValid ==
    /\ config # <<>>
    /\ cursor.layout \in 1..Len(config)
    /\ \A c \in 1..Len(config) :
          /\ config[c] # <<>>
          /\ cursor.column[c] \in 1..Len(config[c])
          /\ \A k \in 1..Len(config[c]) :
                /\ config[c][k] # <<>>
                /\ cursor.cell[c][k] \in SeqRange(config[c][k])

\* Key L on the last of three columns, after a resize: the layout's cursor
\* wrapped around to the first column
C20_Witness ==
    /\ event.key = Ord_L
    /\ event.to = "view"
    /\ event.cell[1] = 3
    /\ Len(config) = 3
    /\ cursor.layout = 1
    /\ windows # InitialWindows(config, size)

(***************************************************************************)
(* CenteredPopup.centered for an owner that is the layout or a popup. An   *)
(* owner is [kind, w, h]: a Layout answers size() with the terminal's      *)
(* size; a Popup has the fields width and height but no size().            *)
(***************************************************************************)
MaxOwner == 6

\* CenteredPopup.centered: [raised, x, y], the origin of the popup
CenteredPopupCentered(owner, width, height) ==
    IF owner.kind # "Layout"
    THEN [raised |-> TRUE, x |-> 0, y |-> 0]
    ELSE [raised |-> FALSE,
          x |-> IntDiv(owner.w, 2) - IntDiv(width, 2),
          y |-> IntDiv(owner.h, 2) - IntDiv(height, 2)]

InitCentered ==
    InitCall([owner : [kind : {"Layout", "Popup"}, w : 1..MaxOwner, h : 1..MaxOwner],
              width : 1..MaxOwner, height : 1..MaxOwner])

CallCentered ==
    Return("centered",
           CenteredPopupCentered(args.owner, args.width, args.height))

NextCentered ==
    CallCentered

SpecCentered ==
    InitCentered /\ [][NextCentered]_vars

(***************************************************************************)
(* C23: the centered popup's margins                                       *)
(***************************************************************************)
C23_Near(a, b) ==
    a - b <= 1 /\ b - a <= 1

\* C23: for an owner of size (W, H), the root layout or another popup, and
\* a popup of size (w, h), the centered origin is computed and leaves left
\* and right margins that differ by at most 1, and top and bottom margins
\* that differ by at most 1.
C23_CenteredOverOwner ==
    pc = "centered" =>
        /\ ~result.raised
        /\ C23_Near(result.x, args.owner.w - (result.x + args.width))
        /\ C23_Near(result.y, args.owner.h - (result.y + args.height))

\* The owner is a popup: the call raises and no origin is computed
C23_Witness ==
    /\ pc = "centered"
    /\ args.owner.kind = "Popup"
    /\ args.owner.w = 6 /\ args.width = 3
    /\ result.raised

(***************************************************************************)
(* SpecPanes: the geometry derived for a configured tree on a terminal of  *)
(* any size up to MaxExtent x MaxExtent: every column's offset and width,  *)
(* every cell's offset and height.                                         *)
(***************************************************************************)
\* LayoutColumn.offset / width of every column, LayoutCell.offset / height
\* of every cell
Panes(cfg, sz) ==
    [columns |-> [c \in 1..Len(cfg) |->
                     [offset |-> ColumnOffset(cfg, sz, c),
                      width  |-> ColumnWidth(cfg, sz, c)]],
     cells   |-> [c \in 1..Len(cfg) |-> [k \in 1..Len(cfg[c]) |->
                     [offset |-> CellOffset(cfg, sz, c, k),
                      height |-> CellHeight(cfg, sz, c, k)]]]]

InitPanes ==
    InitCall([config : {cfg \in LayoutConfigs : Constructible(cfg)},
              size : [w : 1..MaxExtent, h : 1..MaxExtent]])

CallPanes ==
    Return("panes", Panes(args.config, args.size))

NextPanes ==
    CallPanes

SpecPanes ==
    InitPanes /\ [][NextPanes]_vars

(***************************************************************************)
(* C26: the panes tile the terminal                                        *)
(***************************************************************************)
\* The terminal positions of the pane of cell k of column c
C26_Pane(c, k) ==
    (result.columns[c].offset
        .. (result.columns[c].offset + result.columns[c].width - 1))
    \X (result.cells[c][k].offset
        .. (result.cells[c][k].offset + result.cells[c][k].height - 1))

\* C26: for any terminal size (W, H) and configured tree, column offsets
\* are contiguous from 0 and the widths end at W, in each column cell
\* offsets are contiguous from 0 and the heights end at H, so that no two
\* panes overlap and no terminal position is left uncovered.
C26_PanesTileTerminal ==
    pc = "panes" =>
        LET cfg == args.config
            col == result.columns
            cel == result.cells
        IN  /\ col[1].offset = 0
            /\ \A c \in 1..(Len(cfg) - 1) :
                  col[c + 1].offset = col[c].offset + col[c].width
            /\ col[Len(cfg)].offset + col[Len(cfg)].width = args.size.w
            /\ \A c \in 1..Len(cfg) :
                  /\ cel[c][1].offset = 0
                  /\ \A k \in 1..(Len(cfg[c]) - 1) :
                        cel[c][k + 1].offset = cel[c][k].offset + cel[c][k].height
                  /\ cel[c][Len(cfg[c])].offset + cel[c][Len(cfg[c])].height
                         = args.size.h
            /\ \A a, b \in AllCells(cfg) :
                  a # b => C26_Pane(a[1], a[2]) \cap C26_Pane(b[1], b[2]) = {}
            /\ UNION {C26_Pane(ck[1], ck[2]) : ck \in AllCells(cfg)}
                   = (0..(args.size.w - 1)) \X (0..(args.size.h - 1))

\* Three columns on 11 terminal columns: the first column takes the
\* remainder, 5 + 3 + 3
C26_Witness ==
    /\ pc = "panes"
    /\ Len(args.config) = 3
    /\ args.size.w = 11
    /\ result.columns[1].width = 5
    /\ result.columns[3].offset = 8


(***************************************************************************)
(* Keys in Accept and Cancel mode                                          *)
(***************************************************************************)
\* What a popup shows for editing: the text of its text field, the option
\* cursor and the options with their values
C25_Content(pp) ==
    <<pp.input.text, pp.cursor, pp.options>>

\* The key of this step was read while popup d, the deepest, was in Accept
\* or Cancel mode; a popup that the key tears down has no content any more
C25_KeyLeavesContent ==
    (pc = "getch" /\ layoutPopup # 0) =>
        LET d == Deepest(heap, layoutPopup)
            k == event'.key
        IN  heap[d].mode \in {ACCEPT, CANCEL} =>
                /\ d \in DOMAIN heap' => C25_Content(heap'[d]) = C25_Content(heap[d])
                /\ k \notin {KeyENTER, KeyESCAPE, KeyTAB, KeySTAB} =>
                      /\ heap' = heap
                      /\ layoutPopup' = layoutPopup
                      /\ filters' = filters
                      /\ todoFile' = todoFile

\* C25: in a modal popup whose focus mode is Accept or Cancel no key changes
\* the popup's content (text of the text field, option cursor, option
\* values, option list), and only Enter, Escape, Tab and Shift-Tab have any
\* effect.
C25_AcceptCancelModeInert ==
    [][C25_KeyLeavesContent]_vars

\* A list popup in Accept mode has read the key a, which added an entry and
\* started its inline text edit
C25_Witness ==
    /\ event.key = Ord_a
    /\ \E p \in event.handlers :
          /\ p \in Reach(heap, layoutPopup)
          /\ heap[p].cls = "OptionListPopup"
          /\ heap[p].mode = ACCEPT
          /\ heap[p].input.active


(***************************************************************************)
(* Confirming an inline text edit                                          *)
(***************************************************************************)
\* The entries of a list popup whose inline edit has been started
C28_Editing(pp) ==
    {i \in 1..Len(pp.options) : pp.options[i].editing}

\* Enter was read while list popup d, the deepest, had an inline text edit
\* open: the typed text goes to an entry whose edit was started, nothing
\* else changes in the entries, and no entry is editing afterwards
C28_EnterConfirmsEdit ==
    (pc = "getch" /\ layoutPopup # 0) =>
        LET d == Deepest(heap, layoutPopup)
            pp == heap[d]
        IN  (pp.cls = "OptionListPopup" /\ pp.input.active /\ event'.key = KeyENTER) =>
                /\ d \in DOMAIN heap'
                /\ C28_Editing(heap'[d]) = {}
                /\ pp.input.text # <<>> =>
                      \E e \in C28_Editing(pp) :
                          heap'[d].options =
                              [pp.options EXCEPT ![e].name = pp.input.text,
                                                 ![e].editing = FALSE]

\* C28: in a list-editing popup, confirming an inline text edit with Enter
\* assigns the typed text to the entry whose edit was started (after
\* add-entry: the entry just added) and to no other entry, and afterwards no
\* entry is left in editing state.
C28_EnterAssignsToEditedEntry ==
    [][C28_EnterConfirmsEdit]_vars

\* Enter has closed the text field of a list popup and an entry is still in
\* editing state
C28_Witness ==
    /\ event.key = KeyENTER
    /\ \E p \in event.handlers :
          /\ p \in Reach(heap, layoutPopup)
          /\ heap[p].cls = "OptionListPopup"
          /\ ~heap[p].input.active
          /\ C28_Editing(heap[p]) # {}


(***************************************************************************)
(* The option cursor and the height of a list popup                        *)
(***************************************************************************)
\* C29: in every open option popup the option cursor is a valid index into
\* the option list when the list is non-empty and 0 when it is empty, and
\* the height of a list popup is its number of entries plus 2, whatever
\* move-selection, add-entry, delete-entry and inline-edit keys were read.
C29_CursorAndHeight ==
    \A p \in Reach(heap, layoutPopup) :
        heap[p].cls \in {"OptionPopup", "OptionListPopup"} =>
            /\ heap[p].cursor >= 0
            /\ heap[p].options # <<>> => heap[p].cursor < Len(heap[p].options)
            /\ heap[p].options = <<>> => heap[p].cursor = 0
            /\ heap[p].cls = "OptionListPopup" =>
                  heap[p].height = Len(heap[p].options) + 2

\* The key d has deleted the last of several entries of a list popup while
\* the cursor was on it
C29_Witness ==
    /\ event.key = Ord_d
    /\ \E p \in event.handlers :
          /\ p \in Reach(heap, layoutPopup)
          /\ heap[p].cls = "OptionListPopup"
          /\ Len(heap[p].options) = 1
          /\ heap[p].cursor = 0
          /\ Len(opened[p]) = 2
          /\ heap[p].options[1].name = opened[p][1].name


(***************************************************************************)
(* Accepting a list popup                                                  *)
(***************************************************************************)
\* The entries of a list popup as (name, value) pairs, in order
C24_Entries(pp) ==
    [i \in 1..Len(pp.options) |->
        [name |-> pp.options[i].name, val |-> pp.options[i].value]]

\* Every list popup accepted in this step has left its entries in the
\* target list and its owner's popup slot empty
C24_AcceptCopiesEntries ==
    \A d \in event'.accepted :
        (d \in DOMAIN heap /\ heap[d].cls = "OptionListPopup") =>
            LET obj == heap[d].obj
            IN  /\ obj.pid \in DOMAIN heap'
                /\ heap'[obj.pid].options[obj.opt].items = C24_Entries(heap[d])
                /\ heap'[obj.pid].popup = 0

\* C24: after a list-editing popup is accepted, whatever entries were
\* added, deleted, renamed and toggled before, the target list equals the
\* popup's entries (name, value) at the moment of accept, element for
\* element and in order, and the popup has been torn down: its owner's
\* popup slot is empty.
C24_AcceptedListEqualsEntries ==
    [][C24_AcceptCopiesEntries]_vars

\* Five keys after the start Enter has accepted the list popup of Regexes,
\* opened on the entries x and q with x deleted since, and the list now
\* holds x alone
C24_Witness ==
    /\ nkeys = 5
    /\ event.key = KeyENTER
    /\ event.accepted # {}
    /\ layoutPopup # 0
    /\ heap[layoutPopup].popup = 0
    /\ heap[layoutPopup].cursor + 1 \in DOMAIN heap[layoutPopup].options
    /\ LET opt == heap[layoutPopup].options[heap[layoutPopup].cursor + 1]
       IN  /\ opt.key = "regexes"
           /\ opened[layoutPopup].regexes = ConfiguredFilter.regexes
           /\ opt.items = <<[name |-> <<Ord_x>>, val |-> "True"]>>


(***************************************************************************)
(* TodoView and its per-cell state (src/main.py), LayoutCell.state         *)
(* (src/src/cursed.py). The handlers work on a record u: the layout's      *)
(* config, size and cursor, the cells' states, the views, the todo file    *)
(* and `raised`. One TodoTxt file is shared by every view, and no view     *)
(* filters tasks out.                                                      *)
(***************************************************************************)
MaxMtime == 2
MaxTasks == 12
MaxRows == 14
MaxViewKeys == 6
MaxScrollKeys == 7

Ord_U == 85
KeyCTRL_U == 21
KeyCTRL_D == 4

\* None where the other values are integers: a modification time not yet
\* read, a task list not yet made
Unset == -1

\* TodoViewState.__init__
TodoViewState ==
    [cursor |-> 0, scroll |-> 0, max_x |-> 0, max_y |-> 0, layout |-> None]

\* FieldsLayout(columns, seperator, total_width), by the width it spreads:
\* <<total_width>>, None being <<>>
FieldsLayout(total_width) ==
    <<total_width>>

ViewWorld ==
    [config |-> config, size |-> size, cursor |-> cursor, states |-> states,
     views |-> views, todo |-> todo, inits |-> inits, raised |-> FALSE]

\* The key of LayoutCell.states of cell k of column c for view v: the view
\* object, in the cell's own dictionary
StateKeyByView(c, k, v) ==
    <<1, 1, v>>

StateKey(c, k, v) ==
    <<c, k, v>>

\* A state lookup that makes a new state every time
CellStateAlwaysNew(u, c, k, v) ==
    LET key == StateKey(c, k, v)
    IN  [u EXCEPT
            !.states = [x \in DOMAIN @ \cup {key} |->
                           IF x = key THEN TodoViewState ELSE @[x]],
            !.inits = [x \in DOMAIN @ \cup {key} |->
                          IF x # key THEN @[x]
                          ELSE IF x \in DOMAIN @ THEN @[x] + 1 ELSE 1]]

\* LayoutCell.state (View.state): the state the cell holds for the view,
\* made by view.init_state() when the cell holds none
CellState(u, c, k, v) ==
    LET key == StateKey(c, k, v)
    IN  IF key \in DOMAIN u.states THEN u
        ELSE [u EXCEPT
                 !.states = [x \in DOMAIN @ \cup {key} |->
                                IF x = key THEN TodoViewState ELSE @[x]],
                 !.inits = [x \in DOMAIN @ \cup {key} |->
                               IF x # key THEN @[x]
                               ELSE IF x \in DOMAIN @ THEN @[x] + 1 ELSE 1]]

\* Util.clamp
UtilClamp(val, lo, hi) ==
    Max(lo, Min(hi, val))

\* Util.scroll
UtilScroll(scroll, cur, offset, limit, items) ==
    LET bounds == limit - offset
        s1 == IF cur - scroll > bounds THEN cur - bounds ELSE scroll
        s2 == IF cur - s1 < offset THEN cur - offset ELSE s1
        s3 == IF cur + offset >= items THEN items - limit ELSE s2
    IN  IF s3 >= 0 THEN s3 ELSE 0

\* TodoTxt.update (TodoTxt.update_mtime): the file is read again when its
\* modification time is not the one of the last read
TodoTxtUpdate(u) ==
    IF u.todo.mtime # u.todo.file
    THEN [u |-> [u EXCEPT !.todo.mtime = u.todo.file, !.todo.tasks = u.todo.lines],
          ret |-> TRUE]
    ELSE [u |-> u, ret |-> FALSE]

\* TodoView.update_mtime (TodoView.has_changed)
UpdateMtime(u, v) ==
    LET t == TodoTxtUpdate(u)
    IN  IF t.ret \/ t.u.views[v].mtime # t.u.todo.mtime
        THEN [u |-> [t.u EXCEPT !.views[v].mtime = t.u.todo.mtime], ret |-> TRUE]
        ELSE [u |-> t.u, ret |-> FALSE]

\* TodoView.update_tasks
UpdateTasks(u, v) ==
    [u EXCEPT !.views[v].tasks = u.todo.tasks]

\* TodoView.update_layout
UpdateLayout(u, c, k, v) ==
    LET key == StateKey(c, k, v)
        max_x == CellWidth(u.config, u.size, c, k) - 1
        max_y == CellHeight(u.config, u.size, c, k) - 1
    IN  [CellState(u, c, k, v) EXCEPT !.states[key].max_y = max_y,
                                      !.states[key].max_x = max_x,
                                      !.states[key].layout = FieldsLayout(max_x)]

\* TodoView.update_cursor: the scroll from the cursor as the key left it,
\* then the cursor clamped; self.tasks exists after the first update_tasks
UpdateCursor(u, c, k, v) ==
    LET key == StateKey(c, k, v)
        u1 == CellState(u, c, k, v)
        st == u1.states[key]
        n == u1.views[v].tasks
    IN  IF n = Unset THEN [u1 EXCEPT !.raised = TRUE]
        ELSE [u1 EXCEPT
                 !.states[key].scroll = UtilScroll(st.scroll, st.cursor, 5,
                                                   st.max_y - 4, n - 1),
                 !.states[key].cursor = UtilClamp(st.cursor, 0, n - 1)]

\* TodoView.update
Update(u, c, k, v, force) ==
    LET m == UpdateMtime(u, v)
    IN  IF m.ret \/ force
        THEN UpdateCursor(UpdateLayout(UpdateTasks(m.u, v), c, k, v), c, k, v)
        ELSE m.u

\* TodoView.draw: draw_titles subscripts state.layout
TodoViewDraw(u, c, k, v) ==
    LET u1 == CellState(Update(u, c, k, v, FALSE), c, k, v)
    IN  IF u1.raised THEN u1
        ELSE IF u1.states[StateKey(c, k, v)].layout = None
        THEN [u1 EXCEPT !.raised = TRUE]
        ELSE u1

\* The cells in the order Layout.draw and Layout.update reach them
RECURSIVE CellsFrom(_, _, _)
CellsFrom(cfg, c, k) ==
    IF c > Len(cfg) THEN <<>>
    ELSE IF k > Len(cfg[c]) THEN CellsFrom(cfg, c + 1, 1)
    ELSE << <<c, k>> >> \o CellsFrom(cfg, c, k + 1)

\* Another process writes the todo file
Touch(u, lines) ==
    [u EXCEPT !.todo.file = @ + 1, !.todo.lines = lines]

\* Layout.draw: every cell draws its focused view; the file is written
\* before the draw of cell number `at`, if any
RECURSIVE LayoutDraw(_, _, _, _)
LayoutDraw(u, i, at, lines) ==
    LET cells == CellsFrom(u.config, 1, 1)
        u1 == IF i = at THEN Touch(u, lines) ELSE u
    IN  IF i > Len(cells) \/ u.raised THEN u
        ELSE LayoutDraw(TodoViewDraw(u1, cells[i][1], cells[i][2],
                                     u.cursor.cell[cells[i][1]][cells[i][2]]),
                        i + 1, at, lines)

\* Layout.update: LayoutCell.update of every cell, the forced update of its
\* focused view
RECURSIVE ViewLayoutUpdate(_, _)
ViewLayoutUpdate(u, i) ==
    LET cells == CellsFrom(u.config, 1, 1)
    IN  IF i > Len(cells) \/ u.raised THEN u
        ELSE ViewLayoutUpdate(Update(u, cells[i][1], cells[i][2],
                                     u.cursor.cell[cells[i][1]][cells[i][2]], TRUE),
                              i + 1)

\* TodoView.handle_input of view v in cell k of column c, as far as the
\* cells' states go (the cursors, windows and popups are in
\* TodoViewHandleInput)
ViewHandleInput(u, c, k, v, char) ==
    LET key == StateKey(c, k, v)
        u0 == CellState(u, c, k, v)
        half == IntDiv(CellHeight(u.config, u.size, c, k), 2)
        u1 == IF char = Ord_j THEN [u0 EXCEPT !.states[key].cursor = @ + 1]
              ELSE IF char = Ord_k THEN [u0 EXCEPT !.states[key].cursor = @ - 1]
              ELSE IF char = Ord_U THEN Update(u0, c, k, v, TRUE)
              ELSE IF char = KeyCTRL_U THEN [u0 EXCEPT !.states[key].cursor = @ - half]
              ELSE IF char = KeyCTRL_D THEN [u0 EXCEPT !.states[key].cursor = @ + half]
              ELSE IF char = KeyRESIZE THEN ViewLayoutUpdate(u0, 1)
              ELSE u0
    IN  IF u1.raised THEN u1 ELSE UpdateCursor(u1, c, k, v)

ViewCommit(u) ==
    /\ states' = u.states
    /\ views' = u.views
    /\ todo' = u.todo
    /\ inits' = u.inits

(***************************************************************************)
(* Tui.main with the views' states: Layout.draw, the keys of the todo view *)
(* that move the selection, switch views and cells, force an update or     *)
(* report a resize, and writes to the todo file by other processes.        *)
(***************************************************************************)
\* Tui.main down to getch, the views drawn
ViewRedraw(lines) ==
    /\ pc = "draw"
    /\ \E at \in 0..Len(CellsFrom(config, 1, 1)) : \E n \in lines :
          /\ at # 0 => todo.file < MaxMtime
          /\ at = 0 => n = todo.lines
          /\ LET u == LayoutDraw(ViewWorld, 1, at, n)
             IN  /\ ViewCommit(u)
                 /\ pc' = IF u.raised THEN "crash" ELSE "getch"
    /\ frame' = MainFrame(config, heap, layoutPopup)
    /\ event' = [NoEvent EXCEPT !.op = "frame"]
    /\ UNCHANGED <<args, result, size, config, cursor, windows, heap, layoutPopup,
                   nextPid, filters, todoFile, exit, closed, opened, nkeys>>

\* getch returns char, TodoView.handle_input handles it
ViewKeyPress(keys, sizes, budget) ==
    \E char \in keys : \E sz \in sizes :
        /\ pc = "getch"
        /\ nkeys < budget
        /\ char # KeyRESIZE => sz = size
        /\ LET cell == CursorCell(cursor)
               v == cursor.cell[cell[1]][cell[2]]
               w0 == [World EXCEPT !.size = sz, !.ev.op = "key", !.ev.key = char]
               w == MainDispatch(w0, char)
               u == ViewHandleInput([ViewWorld EXCEPT !.size = sz],
                                    cell[1], cell[2], v, char)
           IN  /\ Commit(w)
               /\ ViewCommit(u)
               /\ pc' = IF w.raised \/ u.raised THEN "crash"
                        ELSE IF w.exit THEN "exit" ELSE "draw"
        /\ nkeys' = nkeys + 1
        /\ UNCHANGED <<args, result, frame>>

\* The todo file is written while the program waits for a key
ViewTouch(lines) ==
    /\ pc = "getch"
    /\ todo.file < MaxMtime
    /\ \E n \in lines : ViewCommit(Touch(ViewWorld, n))
    /\ UNCHANGED <<pc, args, result, size, config, cursor, windows, heap,
                   layoutPopup, nextPid, filters, todoFile, exit, frame, event,
                   closed, opened, nkeys>>

InitViews(cfgs, sizes, lines) ==
    /\ pc = "draw"
    /\ args = <<>>
    /\ result = <<>>
    /\ size \in sizes
    /\ config \in cfgs
    /\ cursor = InitialCursor(config)
    /\ windows = InitialWindows(config, size)
    /\ heap = <<>>
    /\ layoutPopup = 0
    /\ nextPid = 1
    /\ filters = [v \in ViewsOf(config) |-> DefaultFilter]
    /\ todoFile = <<>>
    /\ exit = FALSE
    /\ frame = <<>>
    /\ event = NoEvent
    /\ closed = {}
    /\ opened = <<>>
    /\ nkeys = 0
    /\ states = <<>>
    /\ views = [v \in ViewsOf(config) |-> [mtime |-> Unset, tasks |-> Unset]]
    /\ todo \in [file : {1}, lines : lines, mtime : {Unset}, tasks : {0}]
    /\ inits = <<>>

\* SpecView: layouts in which cells share a view and a cell has two views
ViewConfigs ==
    { << << <<"todo", "work">> >> >>,
      << << <<"todo">>, <<"todo">> >> >>,
      << << <<"work", "todo">>, <<"todo">> >> >> }

ViewSizes ==
    {[w |-> 20, h |-> 12], [w |-> 30, h |-> 16]}

ViewLines ==
    {0, 3}

ViewKeys ==
    {Ord_j, Ord_k, KeyCTRL_U, KeyCTRL_D, Ord_U, KeyTAB, KeySTAB, Ord_J, Ord_K,
     KeyRESIZE, Ord_q}

InitView ==
    InitViews(ViewConfigs, ViewSizes, ViewLines)

ViewDraws ==
    ViewRedraw(ViewLines)

ViewKeyPresses ==
    ViewKeyPress(ViewKeys, ViewSizes, MaxViewKeys)

ViewTouches ==
    ViewTouch(ViewLines)

NextView ==
    \/ ViewDraws
    \/ ViewKeyPresses
    \/ ViewTouches

SpecView ==
    InitView /\ [][NextView]_vars


(***************************************************************************)
(* The state a cell holds for a view                                       *)
(***************************************************************************)
\* No state is dropped or made anew in this step, and the state a cell
\* holds for a view that is not the cell's focused view is left alone
C21_StatesKept ==
    \A key \in DOMAIN states :
        /\ key \in DOMAIN states'
        /\ inits'[key] = inits[key]
        /\ key[3] # cursor.cell[key[1]][key[2]] => states'[key] = states[key]

\* C21: init_state is called at most once for every (cell, view) pair over
\* any sequence of draws, keys, view switches and resizes, and every later
\* lookup for the pair finds the state made then: a cell switched away from
\* a view and back finds the view's cursor and scroll as they were left.
C21_OneStatePerCellAndView ==
    /\ [](DOMAIN inits = DOMAIN states /\ \A key \in DOMAIN inits : inits[key] = 1)
    /\ [][C21_StatesKept]_vars

\* A cell with the views todo and work shows todo again after work was
\* shown, both have their state, and todo's cursor is on the third task,
\* where it was left
C21_Witness ==
    /\ pc = "getch"
    /\ config[1][1] = <<"todo", "work">>
    /\ cursor.cell[1][1] = "todo"
    /\ event.op = "frame"
    /\ {<<1, 1, "todo">>, <<1, 1, "work">>} \subseteq DOMAIN states
    /\ states[<<1, 1, "todo">>].cursor = 2
    /\ states[<<1, 1, "work">>].cursor = 1


(***************************************************************************)
(* A view held by two cells                                                *)
(***************************************************************************)
\* A selection key was handled for the focused view in the focused cell:
\* what every other cell listing the view holds for it is as before
C22_OtherCellsKept ==
    (pc = "getch" /\ event'.op = "key"
        /\ event'.key \in {Ord_j, Ord_k, KeyCTRL_U, KeyCTRL_D}) =>
        LET a == CursorCell(cursor)
            v == cursor.cell[a[1]][a[2]]
        IN  \A b \in AllCells(config) \ {a} :
                v \in SeqRange(config[b[1]][b[2]]) =>
                    LET key == StateKey(b[1], b[2], v)
                    IN  /\ key \in DOMAIN states <=> key \in DOMAIN states'
                        /\ key \in DOMAIN states => states'[key] = states[key]

\* C22: when two cells A and B hold the same view V, a key that moves the
\* selection (row up or down, half a page up or down) handled for V in
\* cell A changes only the state cell A holds for V: the cursor and scroll
\* cell B holds for V are unchanged.
C22_SelectionKeysStayInCell ==
    [][C22_OtherCellsKept]_vars

\* The view todo is focused in both cells of the column, both cells hold a
\* state for it, and the key j has moved the cursor of the first cell only
C22_Witness ==
    /\ event.op = "key"
    /\ event.key = Ord_j
    /\ event.cell = <<1, 1>>
    /\ config = << << <<"todo">>, <<"todo">> >> >>
    /\ {<<1, 1, "todo">>, <<1, 2, "todo">>} \subseteq DOMAIN states
    /\ states[<<1, 1, "todo">>].cursor = 1
    /\ states[<<1, 2, "todo">>].cursor = 0


(***************************************************************************)
(* The column layout a view draws with                                     *)
(***************************************************************************)
\* The views have been drawn: every cell holds, for its focused view, a
\* layout spread over the width the cell has now
C27_DrawnWithCurrentLayout ==
    pc = "draw" =>
        /\ pc' = "getch"
        /\ \A b \in AllCells(config) :
              LET key == StateKey(b[1], b[2], cursor.cell[b[1]][b[2]])
              IN  /\ key \in DOMAIN states'
                  /\ states'[key].layout =
                         FieldsLayout(CellWidth(config, size, b[1], b[2]) - 1)

\* C27: whenever a view draws itself into a cell, the state held for that
\* cell and view already has a column layout computed from the cell's
\* current size, also on the first draw of a view that another cell shows
\* too and on the first draw after a view switch that follows a resize.
C27_LayoutCurrentAtDraw ==
    [][C27_DrawnWithCurrentLayout]_vars

\* A view has been drawn with the layout of the width its cell had before
\* the last resize
C27_Witness ==
    /\ pc = "getch"
    /\ event.op = "frame"
    /\ \E b \in AllCells(config) :
          LET key == StateKey(b[1], b[2], cursor.cell[b[1]][b[2]])
          IN  /\ key \in DOMAIN states
              /\ states[key].layout # None
              /\ states[key].layout #
                     FieldsLayout(CellWidth(config, size, b[1], b[2]) - 1)


(***************************************************************************)
(* SpecScroll: one cell with one view, on terminals of 5 to MaxRows rows,  *)
(* with up to MaxTasks tasks in the file                                   *)
(***************************************************************************)
ScrollConfigs ==
    { << << <<"todo">> >> >> }

ScrollSizes ==
    {[w |-> 40, h |-> b] : b \in 5..MaxRows}

ScrollLines ==
    {1, 7, MaxTasks}

ScrollKeys ==
    {Ord_j, Ord_k, KeyCTRL_U, KeyCTRL_D, Ord_U, KeyRESIZE}

InitScroll ==
    InitViews(ScrollConfigs, ScrollSizes, ScrollLines)

ScrollDraws ==
    ViewRedraw(ScrollLines)

ScrollKeyPresses ==
    ViewKeyPress(ScrollKeys, ScrollSizes, MaxScrollKeys)

ScrollTouches ==
    ViewTouch(ScrollLines)

NextScroll ==
    \/ ScrollDraws
    \/ ScrollKeyPresses
    \/ ScrollTouches

SpecScroll ==
    InitScroll /\ [][NextScroll]_vars

(***************************************************************************)
(* The selected row and the rows drawn                                     *)
(***************************************************************************)
\* The state the last key was handled on, and the length of the view's
\* task list
C30_State ==
    states[StateKey(event.cell[1], event.cell[2], event.view)]

C30_Tasks ==
    views[event.view].tasks

\* C30: after any key handled by the todo view in a cell with a non-empty
\* task list, whatever the cell's height, the selected row is an index of
\* the task list, the scroll offset is not negative, and the selected row
\* is one of the rows draw_tasks draws: scroll <= cursor < scroll + max_y - 3.
C30_SelectionDrawn ==
    (event.op = "key" /\ pc # "crash" /\ C30_Tasks >= 1) =>
        /\ C30_State.cursor \in 0..(C30_Tasks - 1)
        /\ C30_State.scroll >= 0
        /\ C30_State.scroll <= C30_State.cursor
        /\ C30_State.cursor < C30_State.scroll + C30_State.max_y - 3

\* The same, in cells of ten rows or more
C30_SelectionDrawnInTallCells ==
    (event.op = "key" /\ pc # "crash" /\ C30_Tasks >= 1 /\ C30_State.max_y >= 9) =>
        /\ C30_State.cursor \in 0..(C30_Tasks - 1)
        /\ C30_State.scroll >= 0
        /\ C30_State.scroll <= C30_State.cursor
        /\ C30_State.cursor < C30_State.scroll + C30_State.max_y - 3

\* In a cell of nine rows the key j has moved the selection to the sixth of
\* twelve tasks, and the five rows drawn are the first five
C30_Witness ==
    /\ event.op = "key"
    /\ event.key = Ord_j
    /\ pc = "draw"
    /\ C30_Tasks = 12
    /\ C30_State.max_y = 8
    /\ C30_State.cursor = 5
    /\ C30_State.scroll = 0

=============================================================================
